---- MODULE Spec2Model ----
(***************************************************************************)
(* Model of the case-table dimension builder (src/caseTable.js): a batch   *)
(* pipeline that turns a workbook and an entity catalog into the           *)
(* selectedDimensions / dimensionList document.                            *)
(*                                                                         *)
(* Strings are sequences of one-character strings, so that cleaning,       *)
(* case folding, prefix tests and slicing are computed character by        *)
(* character as the JavaScript does.  The JavaScript null is the value     *)
(* Null, a one-element sequence whose element is no character.             *)
(***************************************************************************)
EXTENDS Integers, Sequences, FiniteSets, TLC

(* ---------- characters and strings ---------- *)

LowerLetters == <<"a","b","c","d","e","f","g","h","i","j","k","l","m",
                  "n","o","p","q","r","s","t","u","v","w","x","y","z">>

UpperLetters == <<"A","B","C","D","E","F","G","H","I","J","K","L","M",
                  "N","O","P","Q","R","S","T","U","V","W","X","Y","Z">>

Digits == <<"0","1","2","3","4","5","6","7","8","9">>

Range(f) == {f[i] : i \in DOMAIN f}

Null == <<"<null>">>

IsWhitespace(c) == c \in {" ", "\t", "\n"}

\* [A-Za-z0-9_]
IsWordChar(c) == c \in Range(LowerLetters) \cup Range(UpperLetters) \cup Range(Digits) \cup {"_"}

\* [0-9a-f] under the i flag
IsHexChar(c) == c \in Range(Digits) \cup {"a","b","c","d","e","f","A","B","C","D","E","F"}

UpperChar(c) ==
  IF c \in Range(LowerLetters)
    THEN UpperLetters[CHOOSE i \in DOMAIN LowerLetters : LowerLetters[i] = c]
    ELSE c

\* String.prototype.toUpperCase
ToUpper(s) == [i \in 1..Len(s) |-> UpperChar(s[i])]

\* String.prototype.startsWith
StartsWith(s, p) == Len(s) >= Len(p) /\ SubSeq(s, 1, Len(p)) = p

\* String.prototype.slice(n) with 0 <= n
SliceFrom(s, n) == SubSeq(s, n + 1, Len(s))

\* String.prototype.slice(0, n)
SliceTo(s, n) == SubSeq(s, 1, n)

\* String.prototype.indexOf, 0-based, -1 when absent
IndexOf(s, p) ==
  IF \E i \in 0..(Len(s) - Len(p)) : SubSeq(s, i + 1, i + Len(p)) = p
    THEN CHOOSE i \in 0..(Len(s) - Len(p)) :
           /\ SubSeq(s, i + 1, i + Len(p)) = p
           /\ \A j \in 0..(i - 1) : SubSeq(s, j + 1, j + Len(p)) # p
    ELSE -1

\* String.prototype.trim
RECURSIVE TrimLeft(_)
TrimLeft(s) == IF s # <<>> /\ IsWhitespace(Head(s)) THEN TrimLeft(Tail(s)) ELSE s

RECURSIVE TrimRight(_)
TrimRight(s) ==
  IF s # <<>> /\ IsWhitespace(s[Len(s)]) THEN TrimRight(SubSeq(s, 1, Len(s) - 1)) ELSE s

Trim(s) == TrimRight(TrimLeft(s))

\* s.replace(/\s+/g, '')
StripWhitespace(s) == SelectSeq(s, LAMBDA c : ~IsWhitespace(c))

\* s.replace(/[^A-Za-z0-9_]/g, '')
StripNonWord(s) == SelectSeq(s, IsWordChar)

\* s.replace(/_+/g, '')
StripUnderscores(s) == SelectSeq(s, LAMBDA c : c # "_")

\* String(n) for an integer n
RECURSIVE NatToStr(_)
NatToStr(n) == IF n < 10 THEN <<Digits[n + 1]>> ELSE NatToStr(n \div 10) \o <<Digits[(n % 10) + 1]>>

NumToStr(n) == IF n < 0 THEN <<"-">> \o NatToStr(-n) ELSE NatToStr(n)

(* ---------- spreadsheet cells ---------- *)

\* A raw cell of sheet_to_json(..., {header: 1, raw: true}): a string, a number,
\* a boolean, or nothing (undefined / null / a hole in the row).
NullCell == [k |-> "null", s |-> <<>>, n |-> 0]
StrCell(str) == [k |-> "str", s |-> str, n |-> 0]
NumCell(num) == [k |-> "num", s |-> <<>>, n |-> num]
BoolCell(b) == [k |-> "bool", s |-> IF b THEN <<"t","r","u","e">> ELSE <<"f","a","l","s","e">>, n |-> 0]

\* String(raw) for a cell that is not null
CellToString(c) == IF c.k = "num" THEN NumToStr(c.n) ELSE c.s

\* row[i] for a 0-based index i (undefined beyond the row)
CellAt(row, i) == IF i + 1 \in DOMAIN row THEN row[i + 1] ELSE NullCell

(* ---------- helpers of caseTable.js ---------- *)

\* mutant: the underscore is stripped too (/[^A-Za-z0-9]/g)
cleanIdAlnumOnly(raw) ==
  SelectSeq(StripWhitespace(raw), LAMBDA c : IsWordChar(c) /\ c # "_")

\* mutant: the hyphen is kept as well (/[^A-Za-z0-9_-]/g)
cleanIdKeepHyphen(raw) ==
  SelectSeq(StripWhitespace(raw), LAMBDA c : IsWordChar(c) \/ c = "-")

cleanId(raw) == StripNonWord(StripWhitespace(raw))

\* cleanId applied to a raw cell
cleanIdCell(c) == IF c.k = "null" THEN <<>> ELSE cleanId(CellToString(c))

\* Number(s) for a string over [0-9.\-eE+]: the empty string is 0, an optionally
\* signed run of digits is that integer, anything else here is NaN.  (Input pools
\* hold no text whose kept characters form a decimal or exponent literal.)
RECURSIVE DigitsToNat(_)
DigitsToNat(s) ==
  IF s = <<>> THEN 0
  ELSE 10 * DigitsToNat(SubSeq(s, 1, Len(s) - 1))
       + ((CHOOSE i \in DOMAIN Digits : Digits[i] = s[Len(s)]) - 1)

IsDigitRun(s) == s # <<>> /\ \A i \in DOMAIN s : s[i] \in Range(Digits)

StrToNumber(s) ==
  IF s = <<>> THEN [finite |-> TRUE, n |-> 0]
  ELSE IF IsDigitRun(s) THEN [finite |-> TRUE, n |-> DigitsToNat(s)]
  ELSE IF Head(s) = "-" /\ IsDigitRun(Tail(s)) THEN [finite |-> TRUE, n |-> -DigitsToNat(Tail(s))]
  ELSE IF Head(s) = "+" /\ IsDigitRun(Tail(s)) THEN [finite |-> TRUE, n |-> DigitsToNat(Tail(s))]
  ELSE [finite |-> FALSE, n |-> 0]

\* s.replace(/[^0-9.\-eE+]/g, '')
KeepNumericChars(s) == SelectSeq(s, LAMBDA c : c \in Range(Digits) \cup {".", "-", "e", "E", "+"})

\* mutant: only negative numbers are raised to 1, zero is kept
parseNumberFloorNegativeOnly(raw) ==
  IF raw.k = "null" \/ (raw.k = "str" /\ raw.s = <<>>) THEN NullCell
  ELSE IF raw.k = "num" THEN NumCell(IF raw.n < 0 THEN 1 ELSE raw.n)
  ELSE IF raw.k = "bool" THEN NullCell
  ELSE LET s == Trim(raw.s) IN
       IF s = <<>> THEN NullCell
       ELSE LET num == StrToNumber(KeepNumericChars(s)) IN
            IF ~num.finite THEN NullCell
            ELSE NumCell(IF num.n < 0 THEN 1 ELSE num.n)

\* number or null, as a cell
parseNumberOrNullCell(raw) ==
  IF raw.k = "null" \/ (raw.k = "str" /\ raw.s = <<>>) THEN NullCell
  ELSE IF raw.k = "num" THEN NumCell(IF raw.n <= 0 THEN 1 ELSE raw.n)
  ELSE IF raw.k = "bool" THEN NullCell
  ELSE LET s == Trim(raw.s) IN
       IF s = <<>> THEN NullCell
       ELSE LET num == StrToNumber(KeepNumericChars(s)) IN
            IF ~num.finite THEN NullCell
            ELSE NumCell(IF num.n <= 0 THEN 1 ELSE num.n)

\* mutant: a number is stringified as it is
metadataCellValueNoFloor(raw) ==
  IF raw.k = "null" THEN Null
  ELSE IF raw.k = "num" THEN NumToStr(raw.n)
  ELSE LET s == Trim(CellToString(raw)) IN IF s = <<>> THEN Null ELSE s

\* trimmed string or null
metadataCellValue(raw) ==
  IF raw.k = "null" THEN Null
  ELSE IF raw.k = "num" THEN NumToStr(IF raw.n <= 0 THEN 1 ELSE raw.n)
  ELSE LET s == Trim(CellToString(raw)) IN IF s = <<>> THEN Null ELSE s

isCellEmpty(raw) == raw.k = "null" \/ (raw.k = "str" /\ Trim(raw.s) = <<>>)

\* /^[0-9a-f]{8}-[0-9a-f]{4}-[1-5][0-9a-f]{3}-[89ab][0-9a-f]{3}-[0-9a-f]{12}$/i
uuidRegex(s) ==
  /\ Len(s) = 36
  /\ \A i \in {9, 14, 19, 24} : s[i] = "-"
  /\ \A i \in (1..36) \ {9, 14, 19, 24} : IsHexChar(s[i])
  /\ s[15] \in {"1", "2", "3", "4", "5"}
  /\ s[20] \in {"8", "9", "a", "b", "A", "B"}

\* The n-th identifier handed out by uuidv4(): version nibble 4, variant nibble 8.
HexDigits == <<"0","1","2","3","4","5","6","7","8","9","a","b","c","d","e","f">>

uuidv4(n) ==
  <<"0","0","0","0","0","0","0","0","-","0","0","0","0","-","4","0","0","0","-",
    "8","0","0","0","-","0","0","0","0","0","0","0","0","0","0">>
  \o <<HexDigits[((n \div 16) % 16) + 1], HexDigits[(n % 16) + 1]>>

(* ---------- pass 1: selectedDimensions from the CaseTable_ sheets ---------- *)

CaseTablePrefix == <<"C","a","s","e","T","a","b","l","e","_">>
MetadataPrefix == <<"M","e","t","a","d","a","t","a","_">>
VariantPrefix == <<"V","A","R","I","A","N","T","_">>
AttributePrefix == <<"A","T","T","R","I","B","U","T","E","_">>
WhereIs == <<"W","H","E","R","E","I","S">>

\* cleanId(x) || x
DimNameOf(sheetName, prefix) ==
  LET raw == SliceFrom(sheetName, Len(prefix)) IN
  IF cleanId(raw) # <<>> THEN cleanId(raw) ELSE raw

EmptyDimension(id, name, referencedId) ==
  [id |-> id, name |-> name, defaultItem |-> FALSE, items |-> <<>>,
   distributionItems |-> <<>>, attributeMetadataItems |-> <<>>,
   referencedId |-> referencedId]

\* headerRowClean.slice(2).map((h, idx) => ({hdr, rawIndex: 2 + idx})).filter(x => x.hdr)
DistributionHeaders(headerRowRaw) ==
  LET n == IF Len(headerRowRaw) > 2 THEN Len(headerRowRaw) - 2 ELSE 0
      all == [i \in 1..n |-> [hdr |-> cleanIdCell(headerRowRaw[i + 2]), rawIndex |-> 2 + (i - 1)]]
  IN SelectSeq(all, LAMBDA x : x.hdr # <<>>)

\* mutant: the prefixes are matched as written (hdrClean.startsWith)
MakeDistributionItemCaseSensitive(hinfo, id) ==
  LET hdrClean == hinfo.hdr
  IN IF StartsWith(hdrClean, VariantPrefix)
       THEN LET extracted == cleanId(SliceFrom(hdrClean, Len(VariantPrefix))) IN
            [id |-> id, type |-> "VARIANT",
             referencedId |-> IF extracted # <<>> THEN extracted ELSE Null,
             referencedItemId |-> Null, alias |-> extracted]
     ELSE IF StartsWith(hdrClean, AttributePrefix)
       THEN LET extracted == cleanId(SliceFrom(hdrClean, Len(AttributePrefix))) IN
            [id |-> id, type |-> "ATTRIBUTE", referencedId |-> Null,
             referencedItemId |-> Null, alias |-> extracted]
     ELSE LET extracted == cleanId(hdrClean) IN
            [id |-> id, type |-> "VARIANT",
             referencedId |-> IF extracted # <<>> THEN extracted ELSE Null,
             referencedItemId |-> Null, alias |-> extracted]

\* the body of distributionHeaders.map(hinfo => ...)
MakeDistributionItem(hinfo, id) ==
  LET hdrClean == hinfo.hdr
      up == ToUpper(hdrClean)
  IN IF StartsWith(up, VariantPrefix)
       THEN LET extracted == cleanId(SliceFrom(hdrClean, Len(VariantPrefix))) IN
            [id |-> id, type |-> "VARIANT",
             referencedId |-> IF extracted # <<>> THEN extracted ELSE Null,
             referencedItemId |-> Null, alias |-> extracted]
     ELSE IF StartsWith(up, AttributePrefix)
       THEN LET extracted == cleanId(SliceFrom(hdrClean, Len(AttributePrefix))) IN
            [id |-> id, type |-> "ATTRIBUTE", referencedId |-> Null,
             referencedItemId |-> Null, alias |-> extracted]
     ELSE LET extracted == cleanId(hdrClean) IN
            [id |-> id, type |-> "VARIANT",
             referencedId |-> IF extracted # <<>> THEN extracted ELSE Null,
             referencedItemId |-> Null, alias |-> extracted]

\* mutant: a distribution only for the cells the row has
RowDistributionsPresentCells(distributionItems, row) ==
  LET have == IF Len(row) > 2 THEN Len(row) - 2 ELSE 0
      n == IF have < Len(distributionItems) THEN have ELSE Len(distributionItems)
  IN [idx \in 1..n |->
        [distributionItemId |-> distributionItems[idx].id,
         value |-> parseNumberOrNullCell(CellAt(row, 2 + (idx - 1)))]]

\* distributionItems.map((distItem, idx) => ...) for one row
RowDistributions(distributionItems, row) ==
  [idx \in 1..Len(distributionItems) |->
     LET colIndex == 2 + (idx - 1)
         cell == CellAt(row, colIndex)
     IN [distributionItemId |-> distributionItems[idx].id,
         value |-> parseNumberOrNullCell(cell)]]

\* row.every(isCellEmpty)
RowEmpty(row) == \A i \in DOMAIN row : isCellEmpty(row[i])

\* mutant: only fully empty rows are skipped
ItemRowsNonEmptyOnly(rows) == SelectSeq(Tail(rows), LAMBDA row : ~RowEmpty(row))

\* the rows of the items loop that are not skipped
ItemRows(rows) ==
  SelectSeq(Tail(rows), LAMBDA row : ~RowEmpty(row) /\ ~isCellEmpty(CellAt(row, 0)))

MakeItem(row, distributionItems, id) ==
  [id |-> id,
   value |-> cleanIdCell(CellAt(row, 0)),
   stdDistribution |-> parseNumberOrNullCell(CellAt(row, 1)),
   variants |-> <<>>,
   distributions |-> RowDistributions(distributionItems, row),
   attributesMetadata |-> <<>>]

\* mutant: a sheet without data rows is taken as an empty sheet, header or not
BuildDimensionHeaderIgnored(sheet, n) ==
  LET dimName == DimNameOf(sheet.name, CaseTablePrefix) IN
  IF Len(sheet.rows) <= 1
    THEN [dim |-> EmptyDimension(uuidv4(n), dimName, dimName), next |-> n + 1]
    ELSE LET hdrs == DistributionHeaders(sheet.rows[1])
             distributionItems == [i \in 1..Len(hdrs) |-> MakeDistributionItem(hdrs[i], uuidv4(n + i - 1))]
             kept == ItemRows(sheet.rows)
             items == [j \in 1..Len(kept) |->
                         MakeItem(kept[j], distributionItems, uuidv4(n + Len(hdrs) + j - 1))]
         IN [dim |-> [id |-> uuidv4(n + Len(hdrs) + Len(kept)),
                      name |-> dimName, defaultItem |-> FALSE, items |-> items,
                      distributionItems |-> distributionItems,
                      attributeMetadataItems |-> <<>>, referencedId |-> dimName],
             next |-> n + Len(hdrs) + Len(kept) + 1]

\* One iteration of the CaseTable_ loop for a sheet that carries the prefix; n is
\* the number of identifiers uuidv4() has handed out so far.
BuildDimension(sheet, n) ==
  LET dimName == DimNameOf(sheet.name, CaseTablePrefix) IN
  IF Len(sheet.rows) = 0
    THEN [dim |-> EmptyDimension(uuidv4(n), dimName, dimName), next |-> n + 1]
    ELSE LET hdrs == DistributionHeaders(sheet.rows[1])
             distributionItems == [i \in 1..Len(hdrs) |-> MakeDistributionItem(hdrs[i], uuidv4(n + i - 1))]
             kept == ItemRows(sheet.rows)
             items == [j \in 1..Len(kept) |->
                         MakeItem(kept[j], distributionItems, uuidv4(n + Len(hdrs) + j - 1))]
         IN [dim |-> [id |-> uuidv4(n + Len(hdrs) + Len(kept)),
                      name |-> dimName, defaultItem |-> FALSE, items |-> items,
                      distributionItems |-> distributionItems,
                      attributeMetadataItems |-> <<>>, referencedId |-> dimName],
             next |-> n + Len(hdrs) + Len(kept) + 1]

\* for (const sheetName of sheetNames) { if (!startsWith('CaseTable_')) continue; ... }
RECURSIVE BuildSelectedDimensions(_, _, _)
BuildSelectedDimensions(sheets, dims, n) ==
  IF sheets = <<>> THEN [dims |-> dims, next |-> n]
  ELSE IF ~StartsWith(Head(sheets).name, CaseTablePrefix)
    THEN BuildSelectedDimensions(Tail(sheets), dims, n)
  ELSE LET b == BuildDimension(Head(sheets), n) IN
       BuildSelectedDimensions(Tail(sheets), Append(dims, b.dim), b.next)

(* ---------- pass 2: ATTRIBUTE distributionItems across selectedDimensions ---------- *)

\* mutant: a dimension whose name starts with the target also matches
findDimensionByNamePrefix(dims, nameRaw) ==
  LET target == cleanId(nameRaw)
      hits == {i \in DOMAIN dims : StartsWith(ToUpper(cleanId(dims[i].name)), ToUpper(target))}
  IN IF target = <<>> \/ hits = {} THEN 0
     ELSE CHOOSE i \in hits : \A j \in hits : i <= j

\* mutant: the names are compared as written
findDimensionByNameCase(dims, nameRaw) ==
  LET target == cleanId(nameRaw)
      hits == {i \in DOMAIN dims : cleanId(dims[i].name) = target}
  IN IF target = <<>> \/ hits = {} THEN 0
     ELSE CHOOSE i \in hits : \A j \in hits : i <= j

\* dims.find(...) || null, as a 1-based position in dims (0 for null)
findDimensionByCleanName(dims, nameRaw) ==
  LET target == cleanId(nameRaw)
      hits == {i \in DOMAIN dims : ToUpper(cleanId(dims[i].name)) = ToUpper(target)}
  IN IF target = <<>> \/ hits = {} THEN 0
     ELSE CHOOSE i \in hits : \A j \in hits : i <= j

\* dimension.items.find(...) || null, as a 1-based position in the items (0 for null)
findItemObjectInDimensionItems(dimension, valueRaw) ==
  LET target == cleanId(valueRaw)
      hits == {i \in DOMAIN dimension.items :
                 ToUpper(cleanId(dimension.items[i].value)) = ToUpper(target)}
  IN IF target = <<>> \/ hits = {} THEN 0
     ELSE CHOOSE i \in hits : \A j \in hits : i <= j

\* mutant: without the item the dimension reference is dropped as well
ResolveDistributionItemAllOrNothing(dims, dist) ==
  IF dist.type # "ATTRIBUTE" THEN dist
  ELSE LET alias == dist.alias IN
    IF alias = <<>> THEN [dist EXCEPT !.referencedId = Null, !.referencedItemId = Null]
    ELSE LET whereIdx == IndexOf(ToUpper(alias), WhereIs) IN
      IF whereIdx >= 0
        THEN LET targetDim == findDimensionByCleanName(dims, SliceTo(alias, whereIdx))
                 itemObj == IF targetDim # 0
                              THEN findItemObjectInDimensionItems(
                                     dims[targetDim], SliceFrom(alias, whereIdx + Len(WhereIs)))
                              ELSE 0
             IN [dist EXCEPT
                   !.referencedId = IF itemObj # 0 THEN dims[targetDim].id ELSE Null,
                   !.referencedItemId =
                      IF itemObj # 0 THEN dims[targetDim].items[itemObj].id ELSE Null]
        ELSE LET targetDim == findDimensionByCleanName(dims, alias) IN
             [dist EXCEPT
                !.referencedId = IF targetDim # 0 THEN dims[targetDim].id ELSE Null,
                !.referencedItemId = Null]

\* mutant: the type of the item is not looked at
ResolveDistributionItemAnyType(dims, dist) ==
  LET alias == dist.alias IN
    IF alias = <<>> THEN [dist EXCEPT !.referencedId = Null, !.referencedItemId = Null]
    ELSE LET targetDim == findDimensionByCleanName(dims, alias) IN
         [dist EXCEPT
            !.referencedId = IF targetDim # 0 THEN dims[targetDim].id ELSE Null,
            !.referencedItemId = Null]

\* mutant: the reference is the dimension's name (targetDim.name)
ResolveDistributionItemByName(dims, dist) ==
  IF dist.type # "ATTRIBUTE" THEN dist
  ELSE LET alias == dist.alias IN
    IF alias = <<>> THEN [dist EXCEPT !.referencedId = Null, !.referencedItemId = Null]
    ELSE LET whereIdx == IndexOf(ToUpper(alias), WhereIs) IN
      IF whereIdx >= 0
        THEN LET beforeRaw == SliceTo(alias, whereIdx)
                 afterRaw == SliceFrom(alias, whereIdx + Len(WhereIs))
                 targetDim == findDimensionByCleanName(dims, beforeRaw)
                 itemObj == IF targetDim # 0
                              THEN findItemObjectInDimensionItems(dims[targetDim], afterRaw)
                              ELSE 0
             IN [dist EXCEPT
                   !.referencedId = IF targetDim # 0 THEN dims[targetDim].name ELSE Null,
                   !.referencedItemId =
                      IF itemObj # 0 THEN dims[targetDim].items[itemObj].id ELSE Null,
                   !.alias = alias]
        ELSE LET targetDim == findDimensionByCleanName(dims, alias) IN
             [dist EXCEPT
                !.referencedId = IF targetDim # 0 THEN dims[targetDim].name ELSE Null,
                !.referencedItemId = Null]

\* the body of the loop over dim.distributionItems
ResolveDistributionItem(dims, dist) ==
  IF dist.type # "ATTRIBUTE" THEN dist
  ELSE LET alias == dist.alias IN
    IF alias = <<>> THEN [dist EXCEPT !.referencedId = Null, !.referencedItemId = Null]
    ELSE LET whereIdx == IndexOf(ToUpper(alias), WhereIs) IN
      IF whereIdx >= 0
        THEN LET beforeRaw == SliceTo(alias, whereIdx)
                 afterRaw == SliceFrom(alias, whereIdx + Len(WhereIs))
                 targetDim == findDimensionByCleanName(dims, beforeRaw)
                 itemObj == IF targetDim # 0
                              THEN findItemObjectInDimensionItems(dims[targetDim], afterRaw)
                              ELSE 0
             IN [dist EXCEPT
                   !.referencedId = IF targetDim # 0 THEN dims[targetDim].id ELSE Null,
                   !.referencedItemId =
                      IF itemObj # 0 THEN dims[targetDim].items[itemObj].id ELSE Null,
                   !.alias = alias]
        ELSE LET targetDim == findDimensionByCleanName(dims, alias) IN
             [dist EXCEPT
                !.referencedId = IF targetDim # 0 THEN dims[targetDim].id ELSE Null,
                !.referencedItemId = Null]

\* for (const dim of selectedDimensions) for (const dist of dim.distributionItems) ...
ResolveAttributes(dims) ==
  [d \in DOMAIN dims |->
     [dims[d] EXCEPT !.distributionItems =
        [k \in DOMAIN dims[d].distributionItems |->
           ResolveDistributionItem(dims, dims[d].distributionItems[k])]]]

(* ---------- pass 3: the Metadata_ sheets ---------- *)

\* {colIndex, columnName, rawHdr} of the non-empty headers from column B onward
AttributeMetadataHeaders(headerRow) ==
  LET n == IF Len(headerRow) > 1 THEN Len(headerRow) - 1 ELSE 0
      all == [col \in 1..n |-> [colIndex |-> col, columnName |-> cleanIdCell(headerRow[col + 1]),
                                rawHdr |-> headerRow[col + 1]]]
  IN SelectSeq(all, LAMBDA h : ~isCellEmpty(h.rawHdr) /\ h.columnName # <<>>)

RECURSIVE colNumberToLetter(_)
colNumberToLetter(n) ==
  IF n > 0 THEN colNumberToLetter((n - 1) \div 26) \o <<UpperLetters[((n - 1) % 26) + 1]>>
  ELSE <<>>

\* mutant: the uniqueness key is not case-folded
DuplicatesCaseSensitive(sheetName, hdrs) ==
  LET key(i) == hdrs[i].columnName
      occ(i) == SelectSeq(hdrs, LAMBDA h : h.columnName = key(i))
      firsts == SelectSeq([i \in 1..Len(hdrs) |-> i],
                          LAMBDA i : /\ \A j \in 1..(i - 1) : key(j) # key(i)
                                     /\ Len(occ(i)) > 1)
  IN [d \in 1..Len(firsts) |->
        [name |-> key(firsts[d]),
         occurrences |->
           [o \in 1..Len(occ(firsts[d])) |->
              [sheet |-> sheetName,
               column |-> colNumberToLetter(occ(firsts[d])[o].colIndex + 1),
               index |-> occ(firsts[d])[o].colIndex + 1,
               header |-> CellToString(occ(firsts[d])[o].rawHdr)]]]]

\* nameToOccurrences filtered to the keys with more than one occurrence, in the
\* Map's insertion order; each occurrence as it is printed.
Duplicates(sheetName, hdrs) ==
  LET key(i) == ToUpper(hdrs[i].columnName)
      occ(i) == SelectSeq(hdrs, LAMBDA h : ToUpper(h.columnName) = key(i))
      firsts == SelectSeq([i \in 1..Len(hdrs) |-> i],
                          LAMBDA i : /\ \A j \in 1..(i - 1) : key(j) # key(i)
                                     /\ Len(occ(i)) > 1)
  IN [d \in 1..Len(firsts) |->
        [name |-> key(firsts[d]),
         occurrences |->
           [o \in 1..Len(occ(firsts[d])) |->
              [sheet |-> sheetName,
               column |-> colNumberToLetter(occ(firsts[d])[o].colIndex + 1),
               index |-> occ(firsts[d])[o].colIndex + 1,
               header |-> CellToString(occ(firsts[d])[o].rawHdr)]]]]

\* the attrs array built for one row
RowAttributes(hdrs, metaItems, row) ==
  [i \in 1..Len(hdrs) |->
     [metadataItemId |-> metaItems[i].id,
      value |-> metadataCellValue(CellAt(row, hdrs[i].colIndex))]]

\* for (let r = 1; r < rows.length; r++) ... itemInDim.attributesMetadata = attrs
RECURSIVE PopulateItems(_, _, _, _)
PopulateItems(dim, rows, hdrs, metaItems) ==
  IF rows = <<>> THEN dim
  ELSE LET row == Head(rows)
           itemValueClean == cleanIdCell(CellAt(row, 0))
           itemObj == IF RowEmpty(row) \/ isCellEmpty(CellAt(row, 0)) \/ itemValueClean = <<>>
                        THEN 0
                        ELSE findItemObjectInDimensionItems(dim, itemValueClean)
       IN IF itemObj = 0 THEN PopulateItems(dim, Tail(rows), hdrs, metaItems)
          ELSE PopulateItems(
                 [dim EXCEPT !.items[itemObj].attributesMetadata =
                                RowAttributes(hdrs, metaItems, row)],
                 Tail(rows), hdrs, metaItems)

\* mutant: the header names are validated before the dimension is looked up
MergeMetadataSheetValidateFirst(dims, sheet, n) ==
  LET metaName == DimNameOf(sheet.name, MetadataPrefix)
      targetDim == findDimensionByCleanName(dims, metaName)
      hdrs == IF Len(sheet.rows) = 0 THEN <<>> ELSE AttributeMetadataHeaders(sheet.rows[1])
      duplicates == Duplicates(sheet.name, hdrs)
  IN IF Len(duplicates) > 0
       THEN [dims |-> dims, next |-> n, exit |-> TRUE, errors |-> duplicates]
     ELSE IF targetDim = 0 THEN [dims |-> dims, next |-> n, exit |-> FALSE, errors |-> <<>>]
     ELSE IF Len(sheet.rows) = 0
       THEN [dims |-> [dims EXCEPT ![targetDim].attributeMetadataItems = <<>>],
             next |-> n, exit |-> FALSE, errors |-> <<>>]
     ELSE LET metaItems == [i \in 1..Len(hdrs) |->
                              [id |-> uuidv4(n + i - 1), columnName |-> hdrs[i].columnName]]
              withColumns == [dims[targetDim] EXCEPT !.attributeMetadataItems = metaItems]
          IN [dims |-> [dims EXCEPT ![targetDim] =
                          PopulateItems(withColumns, Tail(sheet.rows), hdrs, metaItems)],
              next |-> n + Len(hdrs), exit |-> FALSE, errors |-> <<>>]

\* One iteration of the Metadata_ loop for a sheet that carries the prefix.
\* exit is TRUE when the iteration ends in process.exit(1).
MergeMetadataSheet(dims, sheet, n) ==
  LET metaName == DimNameOf(sheet.name, MetadataPrefix)
      targetDim == findDimensionByCleanName(dims, metaName)
  IN IF targetDim = 0 THEN [dims |-> dims, next |-> n, exit |-> FALSE, errors |-> <<>>]
     ELSE IF Len(sheet.rows) = 0
       THEN [dims |-> [dims EXCEPT ![targetDim].attributeMetadataItems = <<>>],
             next |-> n, exit |-> FALSE, errors |-> <<>>]
     ELSE LET hdrs == AttributeMetadataHeaders(sheet.rows[1])
              duplicates == Duplicates(sheet.name, hdrs)
          IN IF Len(duplicates) > 0
               THEN [dims |-> dims, next |-> n, exit |-> TRUE, errors |-> duplicates]
               ELSE LET metaItems == [i \in 1..Len(hdrs) |->
                                        [id |-> uuidv4(n + i - 1), columnName |-> hdrs[i].columnName]]
                        withColumns == [dims[targetDim] EXCEPT !.attributeMetadataItems = metaItems]
                    IN [dims |-> [dims EXCEPT ![targetDim] =
                                    PopulateItems(withColumns, Tail(sheet.rows), hdrs, metaItems)],
                        next |-> n + Len(hdrs), exit |-> FALSE, errors |-> <<>>]

\* for (const sheetName of sheetNames) { if (!startsWith('Metadata_')) continue; ... }
RECURSIVE MergeMetadata(_, _, _)
MergeMetadata(sheets, dims, n) ==
  IF sheets = <<>> THEN [dims |-> dims, next |-> n, exit |-> FALSE, errors |-> <<>>]
  ELSE IF ~StartsWith(Head(sheets).name, MetadataPrefix)
    THEN MergeMetadata(Tail(sheets), dims, n)
  ELSE LET m == MergeMetadataSheet(dims, Head(sheets), n) IN
       IF m.exit THEN m ELSE MergeMetadata(Tail(sheets), m.dims, m.next)

(* ---------- pass 4: entities.json, referencedId -> attribute id ---------- *)

\* mutant: the catalog names are not case-folded
attrNameToIdCaseSensitive(attrs, key) ==
  LET hits == {i \in DOMAIN attrs : cleanId(attrs[i].name) # <<>> /\ cleanId(attrs[i].name) = key}
  IN IF hits = {} THEN [found |-> FALSE, id |-> <<>>]
     ELSE [found |-> TRUE, id |-> attrs[CHOOSE i \in hits : \A j \in hits : j <= i].id]

\* mutant: the first attribute of a name is kept (if (!map.has(key)) map.set(...))
attrNameToIdFirstWins(attrs, key) ==
  LET hits == {i \in DOMAIN attrs :
                 /\ ToUpper(cleanId(attrs[i].name)) # <<>>
                 /\ ToUpper(cleanId(attrs[i].name)) = key}
  IN IF hits = {} THEN [found |-> FALSE, id |-> <<>>]
     ELSE [found |-> TRUE, id |-> attrs[CHOOSE i \in hits : \A j \in hits : i <= j].id]

\* attrNameToId.get(key): the Map keeps the last value set for a key
attrNameToId(attrs, key) ==
  LET hits == {i \in DOMAIN attrs :
                 /\ ToUpper(cleanId(attrs[i].name)) # <<>>
                 /\ ToUpper(cleanId(attrs[i].name)) = key}
  IN IF hits = {} THEN [found |-> FALSE, id |-> <<>>]
     ELSE [found |-> TRUE, id |-> attrs[CHOOSE i \in hits : \A j \in hits : j <= i].id]

\* if (mapped): undefined and the empty string are falsy
Truthy(m) == m.found /\ m.id # <<>>

\* the body of the loop over selectedDimensions, for one dimension: "skip" leaves
\* it alone, "mapped" rewrites referencedId, "unresolved" records it
ReconcileOutcome(sd, attrs) ==
  IF sd.referencedId = Null THEN "skip"
  ELSE IF uuidRegex(sd.referencedId) THEN "skip"
  ELSE LET key == ToUpper(cleanId(sd.referencedId)) IN
       IF key = <<>> THEN "skip"
       ELSE IF Truthy(attrNameToId(attrs, key)) THEN "mapped"
       ELSE "unresolved"

\* mutant: a miss clears the reference (sd.referencedId = mapped || null)
ReconcileDimensionNullOnMiss(sd, attrs) ==
  IF ReconcileOutcome(sd, attrs) = "mapped"
    THEN [sd EXCEPT !.referencedId = attrNameToId(attrs, ToUpper(cleanId(sd.referencedId))).id]
    ELSE IF ReconcileOutcome(sd, attrs) = "unresolved"
      THEN [sd EXCEPT !.referencedId = Null]
    ELSE sd

ReconcileDimension(sd, attrs) ==
  IF ReconcileOutcome(sd, attrs) = "mapped"
    THEN [sd EXCEPT !.referencedId = attrNameToId(attrs, ToUpper(cleanId(sd.referencedId))).id]
    ELSE sd

\* Set.add on an insertion-ordered Set
SetAdd(set, x) == IF \E i \in DOMAIN set : set[i] = x THEN set ELSE Append(set, x)

RECURSIVE UnresolvedOf(_, _, _)
UnresolvedOf(dims, attrs, acc) ==
  IF dims = <<>> THEN acc
  ELSE UnresolvedOf(Tail(dims), attrs,
         IF ReconcileOutcome(Head(dims), attrs) = "unresolved"
           THEN SetAdd(acc, Head(dims).referencedId) ELSE acc)

MappedCountOf(dims, attrs) ==
  Cardinality({i \in DOMAIN dims : ReconcileOutcome(dims[i], attrs) = "mapped"})

(* ---------- pass 5: dimensionList of the attributes without a dimension ---------- *)

selectedDimensionHasName(dims, cleanName) ==
  \E i \in DOMAIN dims : ToUpper(cleanId(dims[i].name)) = ToUpper(cleanName)

\* the attributes for which the loop pushes a dimension, in catalog order
MissingAttributes(dims, attrs) ==
  SelectSeq(attrs, LAMBDA attr : /\ cleanId(attr.name) # <<>>
                                 /\ ~selectedDimensionHasName(dims, cleanId(attr.name)))

\* mutant: the placeholder is named by the attribute's id
MakeMissingDimensionNamedById(attr, id) == EmptyDimension(id, attr.id, attr.id)

\* mutant: the placeholder refers to the attribute by its cleaned name
MakeMissingDimensionRefByName(attr, id) == EmptyDimension(id, attr.name, cleanId(attr.name))

MakeMissingDimension(attr, id) == EmptyDimension(id, attr.name, attr.id)

BuildDimensionList(dims, attrs, n) ==
  LET missing == MissingAttributes(dims, attrs) IN
  [i \in 1..Len(missing) |-> MakeMissingDimension(missing[i], uuidv4(n + i - 1))]

(* ---------- pass 6: variants.json, distributionItems.referencedId -> group id ---------- *)

variantNameToId(groups, key) == attrNameToId(groups, key)

VariantOutcome(dist, groups) ==
  IF dist.referencedId = Null THEN "skip"
  ELSE IF uuidRegex(dist.referencedId) THEN "skip"
  ELSE LET key == ToUpper(cleanId(dist.referencedId)) IN
       IF key = <<>> THEN "skip"
       ELSE IF Truthy(variantNameToId(groups, key)) THEN "mapped"
       ELSE "unresolved"

ReconcileDistributionItem(dist, groups) ==
  IF VariantOutcome(dist, groups) = "mapped"
    THEN [dist EXCEPT !.referencedId =
            variantNameToId(groups, ToUpper(cleanId(dist.referencedId))).id]
    ELSE dist

\* The only array named distributionItems reachable from a dimension is its own.
collectDistributionItemsArrays(sd) == <<sd.distributionItems>>

ReconcileVariants(dims, groups) ==
  [d \in DOMAIN dims |->
     [dims[d] EXCEPT !.distributionItems =
        [k \in DOMAIN collectDistributionItemsArrays(dims[d])[1] |->
           ReconcileDistributionItem(collectDistributionItemsArrays(dims[d])[1][k], groups)]]]

\* all distributionItems of all dimensions, in visiting order
RECURSIVE AllDistributionItems(_)
AllDistributionItems(dims) ==
  IF dims = <<>> THEN <<>>
  ELSE collectDistributionItemsArrays(Head(dims))[1] \o AllDistributionItems(Tail(dims))

RECURSIVE VariantUnresolvedOf(_, _, _)
VariantUnresolvedOf(dists, groups, acc) ==
  IF dists = <<>> THEN acc
  ELSE VariantUnresolvedOf(Tail(dists), groups,
         IF VariantOutcome(Head(dists), groups) = "unresolved"
           THEN SetAdd(acc, Head(dists).referencedId) ELSE acc)

(* ---------- sanitization and the written document ---------- *)

\* mutant: trimmed only, underscores kept
SanitizeStringTrimOnly(s) == IF s = Null THEN Null ELSE Trim(s)

\* obj.replace(/_+/g, '').trim() on a string, null kept
SanitizeString(s) == IF s = Null THEN Null ELSE Trim(StripUnderscores(s))

SanitizeDimension(d) ==
  [id |-> SanitizeString(d.id),
   name |-> SanitizeString(d.name),
   defaultItem |-> d.defaultItem,
   items |-> [i \in DOMAIN d.items |->
     [id |-> SanitizeString(d.items[i].id),
      value |-> SanitizeString(d.items[i].value),
      stdDistribution |-> d.items[i].stdDistribution,
      variants |-> <<>>,
      distributions |-> [k \in DOMAIN d.items[i].distributions |->
        [distributionItemId |-> SanitizeString(d.items[i].distributions[k].distributionItemId),
         value |-> d.items[i].distributions[k].value]],
      attributesMetadata |-> [k \in DOMAIN d.items[i].attributesMetadata |->
        [metadataItemId |-> SanitizeString(d.items[i].attributesMetadata[k].metadataItemId),
         value |-> SanitizeString(d.items[i].attributesMetadata[k].value)]]]],
   distributionItems |-> [k \in DOMAIN d.distributionItems |->
     [id |-> SanitizeString(d.distributionItems[k].id),
      type |-> d.distributionItems[k].type,
      referencedId |-> SanitizeString(d.distributionItems[k].referencedId),
      referencedItemId |-> SanitizeString(d.distributionItems[k].referencedItemId),
      alias |-> SanitizeString(d.distributionItems[k].alias)]],
   attributeMetadataItems |-> [k \in DOMAIN d.attributeMetadataItems |->
     [id |-> SanitizeString(d.attributeMetadataItems[k].id),
      columnName |-> SanitizeString(d.attributeMetadataItems[k].columnName)]],
   referencedId |-> SanitizeString(d.referencedId)]

\* { caseTableCreator: { dimensionList, selectedDimensions } }
Document(dimList, selDims) == [written |-> TRUE, dimensionList |-> dimList, selectedDimensions |-> selDims]

NoFile == [written |-> FALSE, dimensionList |-> <<>>, selectedDimensions |-> <<>>]

sanitizeStringsInObject(doc) ==
  [written |-> doc.written,
   dimensionList |-> [i \in DOMAIN doc.dimensionList |-> SanitizeDimension(doc.dimensionList[i])],
   selectedDimensions |->
     [i \in DOMAIN doc.selectedDimensions |-> SanitizeDimension(doc.selectedDimensions[i])]]

(* ---------- inputs ---------- *)

MaxSheets == 3

S(str) == StrCell(str)
N(num) == NumCell(num)

SheetRg ==
  [name |-> CaseTablePrefix \o <<"R","g">>,
   rows |-> << <<S(<<"V">>), S(<<"S">>), S(<<"V","A","R","I","A","N","T","_","P","k">>),
                 S(<<"A","T","T","R","I","B","U","T","E","_","C","_","h">>),
                 S(<<"A","T","T","R","I","B","U","T","E","_","C","_","h","W","H","E","R","E","I","S">>)>>,
               <<S(<<"n">>), N(2), N(5), S(<<"x">>)>>,
               <<S(<<"s">>)>> >>]

SheetCh ==
  [name |-> CaseTablePrefix \o <<"C","_","h">>,
   rows |-> << <<S(<<"V">>), S(<<"S">>),
                 S(<<"a","t","t","r","i","b","u","t","e","_","R","g"," ","W","H","E","R","E","I","S"," ","n">>),
                 NullCell,
                 S(<<"A","T","T","R","I","B","U","T","E","_","r","g","w","h","e","r","e","i","s","Z">>),
                 S(<<"A","T","T","R","I","B","U","T","E","_","W","H","E","R","E","I","S","n">>),
                 S(<<"A","T","T","R","I","B","U","T","E","_","R","W","H","E","R","E","I","S","n">>),
                 S(<<"P","k"," ","2">>)>>,
               <<S(<<"o","n">>), N(0), N(3), N(9), S(<<"-","4">>)>>,
               <<NullCell, S(<<" ">>)>>,
               <<S(<<"-","-">>), N(1)>> >>]

SheetRgSpaced ==
  [name |-> CaseTablePrefix \o <<"R"," ","g">>,
   rows |-> << <<S(<<"V">>), S(<<"S">>), S(<<"a","t","t","r","i","b","u","t","e","_">>),
                 S(<<"A","T","T","R","I","B","U","T","E","_","c","_","H">>)>>,
               <<NullCell, N(4)>>,
               <<S(<<"N">>), S(<<"a","b","c">>)>> >>]

SheetDash ==
  [name |-> CaseTablePrefix \o <<"-","-">>,
   rows |-> << >>]

MetaRg ==
  [name |-> MetadataPrefix \o <<"R","g">>,
   rows |-> << <<S(<<"V">>), S(<<"C","o","s","t","_","A">>), S(<<"C","o","s","t","A">>)>>,
               <<S(<<"n">>), N(-5), S(<<" ","x"," ">>)>> >>]

MetaRgSpaced ==
  [name |-> MetadataPrefix \o <<"R"," ","g">>,
   rows |-> << <<S(<<"V">>), NullCell, S(<<"Q">>)>>,
               <<S(<<"S">>), NullCell, N(7)>> >>]

MetaRgDup ==
  [name |-> MetadataPrefix \o <<"R","-","g">>,
   rows |-> << <<S(<<"V">>), S(<<"C","o","s","t">>), S(<<"c","o","s","t"," ">>), S(<<"B">>),
                 S(<<"C","-","o","s","t">>), S(<<"b">>)>>,
               <<S(<<"n">>), N(1), N(2), N(3), N(4), N(5)>> >>]

MetaZz ==
  [name |-> MetadataPrefix \o <<"Z","z">>,
   rows |-> << <<S(<<"V">>), S(<<"A">>), S(<<"a">>)>>,
               <<S(<<"n">>), N(1), N(2)>> >>]

MetaCh ==
  [name |-> MetadataPrefix \o <<"C","_","h">>,
   rows |-> << >>]

SheetPool ==
  {SheetRg, SheetCh, SheetRgSpaced, SheetDash, MetaRg, MetaRgSpaced, MetaRgDup, MetaZz, MetaCh}

\* workbooks: up to MaxSheets sheets of the pool, each at most once (sheet names
\* of a workbook are distinct), in any order
Workbooks ==
  UNION {{w \in [1..k -> SheetPool] : \A i, j \in 1..k : i # j => w[i] # w[j]} : k \in 0..MaxSheets}

IdA == <<"a","a","a","a","a","a","a","a","-","a","a","a","a","-","4","a","a","a","-",
         "8","a","a","a","-","a","a","a","a","a","a","a","a","a","a","a","a">>
IdB == <<"a","t","t","r","_","2">>
IdC == <<"c","c","c","c","c","c","c","c","-","c","c","c","c","-","4","c","c","c","-",
         "9","c","c","c","-","c","c","c","c","c","c","c","c","c","c","c","c">>

Attr(id, name) == [id |-> id, name |-> name]

\* entities.json: unparseable, parseable without an attributes array, or a
\* catalog whose attributes array is given
EntitiesFiles ==
  { [kind |-> "unparseable", attributes |-> <<>>],
    [kind |-> "noattributes", attributes |-> <<>>],
    [kind |-> "ok", attributes |-> <<>>],
    [kind |-> "ok", attributes |-> <<Attr(IdA, <<"R","g">>), Attr(IdB, <<"N","_","w">>)>>],
    [kind |-> "ok", attributes |-> <<Attr(IdA, <<"r"," ","g">>), Attr(IdB, <<"R","G">>),
                                     Attr(IdC, <<"C","_","h">>)>>],
    [kind |-> "ok", attributes |-> <<Attr(IdC, <<"-">>), Attr(<<>>, <<"R","g">>)>>] }

\* variants.json: absent, unparseable, parseable without variants.items (its
\* groups listed under another key), or a list of variant groups in variants.items
VariantsFiles ==
  { [kind |-> "absent", groups |-> <<>>],
    [kind |-> "unparseable", groups |-> <<>>],
    [kind |-> "badshape", groups |-> <<Attr(IdC, <<"P","k">>)>>],
    [kind |-> "ok", groups |-> <<Attr(IdC, <<"P","k">>), Attr(<<"g","2">>, <<"p","k","_","2">>)>>] }

\* mutant: a list of groups under any other key is taken as well
variantGroupsAnyShape(f) ==
  IF f.kind \in {"ok", "badshape"} THEN [isArray |-> TRUE, items |-> f.groups]
  ELSE [isArray |-> FALSE, items |-> <<>>]

\* variantsData.variants.items when the file is there, parses and holds that
\* array; otherwise not an array (the file's groups then sit under another key,
\* if anywhere)
variantGroups(f) ==
  IF f.kind = "ok" THEN [isArray |-> TRUE, items |-> f.groups]
  ELSE [isArray |-> FALSE, items |-> <<>>]

(* ---------- build-variants.js (src/unnamed/part_001) ---------- *)

\* The numbers of this script are kept in tenths (a cell value of -0.5 is -5),
\* so that the fractions its rules are about can be told from zero.  Cells are
\* the cell records of above with n in tenths.

VariantSheetPrefix == <<"V","a","r","i","a","n","t","_">>

RECURSIVE AfterFirstUnderscore(_)
AfterFirstUnderscore(s) ==
  IF s = <<>> THEN <<>>
  ELSE IF Head(s) = "_" THEN Tail(s) ELSE AfterFirstUnderscore(Tail(s))

\* parts.length > 1 ? parts.slice(1).join("_") : sheetName
formatVariantName(sheetName) ==
  IF \E i \in DOMAIN sheetName : sheetName[i] = "_"
    THEN AfterFirstUnderscore(sheetName) ELSE sheetName

\* String(name).replace(/[^A-Za-z0-9]/g, "")
sanitizeReferencedName(name) ==
  SelectSeq(name, LAMBDA c : c \in Range(LowerLetters) \cup Range(UpperLetters) \cup Range(Digits))

\* the cell's number in tenths, or the fallback (in tenths)
getCellNumber(c, fallback) ==
  IF c.k = "null" THEN fallback
  ELSE IF c.k = "num" THEN c.n
  ELSE IF c.k = "bool" THEN (IF c.s = <<"t","r","u","e">> THEN 10 ELSE 0)
  ELSE LET s == Trim(c.s) IN
       IF s = <<>> THEN fallback
       ELSE IF StrToNumber(s).finite THEN 10 * StrToNumber(s).n ELSE fallback

\* mutant: the case-table floor, at or below zero to one
automationFloorToOne(automation) == IF automation <= 0 THEN 10 ELSE automation * 100

\* automation < 0 ? 0 : automation * 100
automationRule(automation) == IF automation < 0 THEN 0 ELSE automation * 100

\* if (startDate < 1) startDate = 1
dateRule(d) == IF d < 10 THEN 10 ELSE d

\* the rows of a Variant_ sheet whose column B holds something
VariantRows(rows) ==
  SelectSeq(rows, LAMBDA row : row.b.k # "null" /\ Trim(CellToString(row.b)) # <<>>)

MakeVariantItem(row, id) ==
  [id |-> id,
   referencedId |-> <<"0">>,
   activityId |-> Null,
   automation |-> automationRule(getCellNumber(row.e, 800)),
   startDate |-> dateRule(getCellNumber(row.c, 0)),
   endDate |-> dateRule(getCellNumber(row.d, 0)),
   referencedName |-> sanitizeReferencedName(CellToString(row.b))]

\* one Variant_ sheet; rows are the sheet's rows from row 2 on
BuildVariant(sheet, n) ==
  LET kept == VariantRows(sheet.rows) IN
  [variant |-> [id |-> uuidv4(n),
                name |-> formatVariantName(sheet.name),
                frequency |-> getCellNumber(IF sheet.rows = <<>> THEN NullCell
                                            ELSE sheet.rows[1].a, 0),
                items |-> [j \in 1..Len(kept) |-> MakeVariantItem(kept[j], uuidv4(n + j))]],
   next |-> n + 1 + Len(kept)]

\* workbook.SheetNames.forEach(...): variants.items
RECURSIVE parseWorkbookToJson(_, _, _)
parseWorkbookToJson(sheets, acc, n) ==
  IF sheets = <<>> THEN acc
  ELSE IF ~StartsWith(Head(sheets).name, VariantSheetPrefix)
    THEN parseWorkbookToJson(Tail(sheets), acc, n)
  ELSE LET b == BuildVariant(Head(sheets), n) IN
       parseWorkbookToJson(Tail(sheets), Append(acc, b.variant), b.next)

\* index.get(key) over the Map of buildEventIndex: the last event of that
\* sanitized name, and none for the empty key
buildEventIndex(events, key) ==
  LET hits == {i \in DOMAIN events : sanitizeReferencedName(events[i].name) = key} IN
  IF key = <<>> \/ hits = {} THEN [found |-> FALSE, id |-> <<>>]
  ELSE [found |-> TRUE, id |-> events[CHOOSE i \in hits : \A j \in hits : j <= i].id]

LinkItem(item, events) ==
  IF item.referencedId = <<"0">> \/ item.referencedId = <<>>
    THEN LET f == buildEventIndex(events, sanitizeReferencedName(item.referencedName)) IN
         [item EXCEPT !.referencedId = IF f.found /\ f.id # <<>> THEN f.id ELSE <<"0">>]
    ELSE item

linkReferencedIds(variants, events) ==
  [v \in DOMAIN variants |->
     [variants[v] EXCEPT !.items = [i \in DOMAIN variants[v].items |->
                                      LinkItem(variants[v].items[i], events)]]]

MaxTenths == 5

\* column E cells: numbers from -MaxTenths/10 to MaxTenths/10, nothing, blank,
\* text that is no number, numeric text
AutomationCells ==
  {NumCell(x) : x \in (-MaxTenths)..MaxTenths}
  \cup {NullCell, S(<<" ">>), S(<<"a","b","c">>), S(<<"-","3">>), S(<<"2">>)}

VariantRow(a, b, c, d, e) == [a |-> a, b |-> b, c |-> c, d |-> d, e |-> e]

\* a sheet that is none of the variants, then Variant_Pk with the cell in column
\* E of its first row and a second row that is skipped or takes the defaults
VariantWorkbooks ==
  {<< [name |-> <<"S","e","t","t","i","n","g","s">>, rows |-> <<>>],
      [name |-> VariantSheetPrefix \o <<"P","k">>,
       rows |-> <<VariantRow(N(30), S(<<"E","v","_","1">>), N(0), N(25), e), r2>>] >> :
     e \in AutomationCells,
     r2 \in {VariantRow(NullCell, S(<<" ">>), N(10), N(10), N(10)),
             VariantRow(NullCell, S(<<"A"," ","b">>), NullCell, S(<<"x">>), NullCell)}}

\* entities.json as build-variants.js finds it
VariantEntitiesFiles ==
  { [kind |-> "absent", events |-> <<>>],
    [kind |-> "unparseable", events |-> <<>>],
    [kind |-> "ok", events |-> <<>>],
    [kind |-> "ok", events |-> <<Attr(IdA, <<"E","v"," ","1">>), Attr(IdC, <<"E","v","-","1">>)>>] }

NoVariantsFile == [written |-> FALSE, variants |-> <<>>]

VariantsFile(variants) == [written |-> TRUE, variants |-> variants]

\* the script has not been started
NotRun ==
  [pc |-> "idle", sheets |-> <<>>, tempOutput |-> NoVariantsFile,
   finalOutput |-> NoVariantsFile, exitCode |-> -1]

(* ---------- the run ---------- *)

VARIABLES
  pc,                  \* the stage about to run, "done" or "exited"
  workbook,            \* the sheets of input3.xlsx in workbook order
  uuidCount,           \* identifiers handed out by uuidv4() so far
  selectedDimensions,
  dimensionList,
  entitiesAttributes,  \* the attributes array of entities.json once loaded
  unresolved,          \* Set of referencedId values not found in entities.json
  mappedCount,
  variantUnresolved,
  variantMappedCount,
  variantsKind,        \* what the variants stage found on disk ("" before it)
  backupFile,          \* caseTableOutput_beforeEntityMap.json
  outputFile,          \* zzz.json
  stderr,              \* duplicate-column diagnostic (a list of duplicates)
  exitCode,            \* -1 while running
  variantsRun          \* a run of build-variants.js, a script of its own

vars == <<pc, workbook, uuidCount, selectedDimensions, dimensionList, entitiesAttributes,
          unresolved, mappedCount, variantUnresolved, variantMappedCount, variantsKind,
          backupFile, outputFile, stderr, exitCode, variantsRun>>

Init ==
  /\ pc = "build"
  /\ workbook \in Workbooks
  /\ uuidCount = 0
  /\ selectedDimensions = <<>>
  /\ dimensionList = <<>>
  /\ entitiesAttributes = <<>>
  /\ unresolved = <<>>
  /\ mappedCount = 0
  /\ variantUnresolved = <<>>
  /\ variantMappedCount = 0
  /\ variantsKind = ""
  /\ backupFile = NoFile
  /\ outputFile = NoFile
  /\ stderr = <<>>
  /\ exitCode = -1
  /\ variantsRun = NotRun

\* src/caseTable.js 105-209
Build ==
  /\ pc = "build"
  /\ LET b == BuildSelectedDimensions(workbook, <<>>, uuidCount) IN
       /\ selectedDimensions' = b.dims
       /\ uuidCount' = b.next
  /\ pc' = "resolve"
  /\ UNCHANGED <<variantsRun, workbook, dimensionList, entitiesAttributes, unresolved, mappedCount,
                 variantUnresolved, variantMappedCount, variantsKind, backupFile,
                 outputFile, stderr, exitCode>>

\* src/caseTable.js 224-259
Resolve ==
  /\ pc = "resolve"
  /\ selectedDimensions' = ResolveAttributes(selectedDimensions)
  /\ pc' = "metadata"
  /\ UNCHANGED <<variantsRun, workbook, uuidCount, dimensionList, entitiesAttributes, unresolved,
                 mappedCount, variantUnresolved, variantMappedCount, variantsKind,
                 backupFile, outputFile, stderr, exitCode>>

\* src/caseTable.js 262-364
Metadata ==
  /\ pc = "metadata"
  /\ LET m == MergeMetadata(workbook, selectedDimensions, uuidCount) IN
       /\ selectedDimensions' = m.dims
       /\ uuidCount' = m.next
       /\ stderr' = m.errors
       /\ pc' = IF m.exit THEN "exited" ELSE "backup"
       /\ exitCode' = IF m.exit THEN 1 ELSE exitCode
  /\ UNCHANGED <<variantsRun, workbook, dimensionList, entitiesAttributes, unresolved, mappedCount,
                 variantUnresolved, variantMappedCount, variantsKind, backupFile, outputFile>>

\* src/caseTable.js 368-370
Backup ==
  /\ pc = "backup"
  /\ backupFile' = Document(<<>>, selectedDimensions)
  /\ pc' = "entities"
  /\ UNCHANGED <<variantsRun, workbook, uuidCount, selectedDimensions, dimensionList, entitiesAttributes,
                 unresolved, mappedCount, variantUnresolved, variantMappedCount,
                 variantsKind, outputFile, stderr, exitCode>>

\* src/caseTable.js 374-380: JSON.parse throws
LoadEntitiesUnparseable ==
  /\ pc = "entities"
  /\ \E f \in EntitiesFiles : f.kind = "unparseable"
  /\ pc' = "exited"
  /\ exitCode' = 1
  /\ UNCHANGED <<variantsRun, workbook, uuidCount, selectedDimensions, dimensionList, entitiesAttributes,
                 unresolved, mappedCount, variantUnresolved, variantMappedCount,
                 variantsKind, backupFile, outputFile, stderr>>

\* mutant: without the attributes array the sanitized document is written
LoadEntitiesNoAttributesSanitized ==
  /\ pc = "entities"
  /\ \E f \in EntitiesFiles : f.kind = "noattributes"
  /\ outputFile' = sanitizeStringsInObject(Document(<<>>, selectedDimensions))
  /\ pc' = "exited"
  /\ exitCode' = 1
  /\ UNCHANGED <<variantsRun, workbook, uuidCount, selectedDimensions, dimensionList, entitiesAttributes,
                 unresolved, mappedCount, variantUnresolved, variantMappedCount,
                 variantsKind, backupFile, stderr>>

\* src/caseTable.js 382-390: no attributes array
LoadEntitiesNoAttributes ==
  /\ pc = "entities"
  /\ \E f \in EntitiesFiles : f.kind = "noattributes"
  /\ outputFile' = Document(<<>>, selectedDimensions)
  /\ pc' = "exited"
  /\ exitCode' = 1
  /\ UNCHANGED <<variantsRun, workbook, uuidCount, selectedDimensions, dimensionList, entitiesAttributes,
                 unresolved, mappedCount, variantUnresolved, variantMappedCount,
                 variantsKind, backupFile, stderr>>

\* src/caseTable.js 374-383: the attributes array is there
LoadEntities ==
  /\ pc = "entities"
  /\ \E f \in EntitiesFiles :
       /\ f.kind = "ok"
       /\ entitiesAttributes' = f.attributes
  /\ pc' = "reconcile"
  /\ UNCHANGED <<variantsRun, workbook, uuidCount, selectedDimensions, dimensionList, unresolved,
                 mappedCount, variantUnresolved, variantMappedCount, variantsKind,
                 backupFile, outputFile, stderr, exitCode>>

\* mutant: the variants mapping follows the entity mapping directly
ReconcileThenVariants ==
  /\ pc = "reconcile"
  /\ selectedDimensions' =
       [i \in DOMAIN selectedDimensions |->
          ReconcileDimension(selectedDimensions[i], entitiesAttributes)]
  /\ unresolved' = UnresolvedOf(selectedDimensions, entitiesAttributes, <<>>)
  /\ mappedCount' = MappedCountOf(selectedDimensions, entitiesAttributes)
  /\ pc' = "variants"
  /\ UNCHANGED <<variantsRun, workbook, uuidCount, dimensionList, entitiesAttributes, variantUnresolved,
                 variantMappedCount, variantsKind, backupFile, outputFile, stderr, exitCode>>

\* src/caseTable.js 393-418
Reconcile ==
  /\ pc = "reconcile"
  /\ selectedDimensions' =
       [i \in DOMAIN selectedDimensions |->
          ReconcileDimension(selectedDimensions[i], entitiesAttributes)]
  /\ unresolved' = UnresolvedOf(selectedDimensions, entitiesAttributes, <<>>)
  /\ mappedCount' = MappedCountOf(selectedDimensions, entitiesAttributes)
  /\ pc' = "synthesize"
  /\ UNCHANGED <<variantsRun, workbook, uuidCount, dimensionList, entitiesAttributes, variantUnresolved,
                 variantMappedCount, variantsKind, backupFile, outputFile, stderr, exitCode>>

\* src/caseTable.js 422-442
Synthesize ==
  /\ pc = "synthesize"
  /\ dimensionList' = BuildDimensionList(selectedDimensions, entitiesAttributes, uuidCount)
  /\ uuidCount' = uuidCount + Len(MissingAttributes(selectedDimensions, entitiesAttributes))
  /\ pc' = "variants"
  /\ UNCHANGED <<variantsRun, workbook, selectedDimensions, entitiesAttributes, unresolved, mappedCount,
                 variantUnresolved, variantMappedCount, variantsKind, backupFile,
                 outputFile, stderr, exitCode>>

\* src/caseTable.js 449-492: file absent, unparseable, or not variants.items
VariantsSkipped ==
  /\ pc = "variants"
  /\ \E f \in VariantsFiles :
       /\ ~variantGroups(f).isArray
       /\ variantsKind' = f.kind
  /\ pc' = "write"
  /\ UNCHANGED <<variantsRun, workbook, uuidCount, selectedDimensions, dimensionList, entitiesAttributes,
                 unresolved, mappedCount, variantUnresolved, variantMappedCount,
                 backupFile, outputFile, stderr, exitCode>>

\* src/caseTable.js 449-483: the mapping loop
VariantsMapped ==
  /\ pc = "variants"
  /\ \E f \in VariantsFiles :
       /\ variantGroups(f).isArray
       /\ variantsKind' = f.kind
       /\ selectedDimensions' = ReconcileVariants(selectedDimensions, variantGroups(f).items)
       /\ variantUnresolved' =
            VariantUnresolvedOf(AllDistributionItems(selectedDimensions), variantGroups(f).items, <<>>)
       /\ variantMappedCount' =
            Cardinality({i \in DOMAIN AllDistributionItems(selectedDimensions) :
                           VariantOutcome(AllDistributionItems(selectedDimensions)[i],
                                          variantGroups(f).items) = "mapped"})
  /\ pc' = "write"
  /\ UNCHANGED <<variantsRun, workbook, uuidCount, dimensionList, entitiesAttributes, unresolved,
                 mappedCount, backupFile, outputFile, stderr, exitCode>>

\* src/caseTable.js 515-538
Write ==
  /\ pc = "write"
  /\ outputFile' = sanitizeStringsInObject(Document(dimensionList, selectedDimensions))
  /\ pc' = "done"
  /\ exitCode' = 0
  /\ UNCHANGED <<variantsRun, workbook, uuidCount, selectedDimensions, dimensionList, entitiesAttributes,
                 unresolved, mappedCount, variantUnresolved, variantMappedCount,
                 variantsKind, backupFile, stderr>>

Next ==
  \/ Build
  \/ Resolve
  \/ Metadata
  \/ Backup
  \/ LoadEntitiesUnparseable
  \/ LoadEntitiesNoAttributes
  \/ LoadEntities
  \/ Reconcile
  \/ Synthesize
  \/ VariantsSkipped
  \/ VariantsMapped
  \/ Write

Spec == Init /\ [][Next]_vars

(* ---------- the same run over a workbook that varies one cell ---------- *)

MaxNum == 3

\* raw cells: numbers around zero, nothing, blank and numeric-looking and other
\* text, a boolean
Cells ==
  {NumCell(n) : n \in (-MaxNum)..MaxNum}
  \cup {NullCell, BoolCell(TRUE),
        S(<<>>), S(<<" ">>), S(<<"0">>), S(<<"-","3">>), S(<<" ","7"," ">>),
        S(<<"4","x">>), S(<<"1","-","2">>), S(<<"a","_","b">>)}

\* CaseTable_X with the cell as stdDistribution and as the one distribution of
\* item n, Metadata_X with the cell as the one metadata value of item n
CellWorkbook(c) ==
  << [name |-> CaseTablePrefix \o <<"X">>,
      rows |-> << <<S(<<"V">>), S(<<"S">>), S(<<"P","k">>)>>, <<S(<<"n">>), c, c>> >>],
     [name |-> MetadataPrefix \o <<"X">>,
      rows |-> << <<S(<<"V">>), S(<<"M">>)>>, <<S(<<"n">>), c>> >>] >>

CellInit ==
  /\ pc = "build"
  /\ workbook \in {CellWorkbook(c) : c \in Cells}
  /\ uuidCount = 0
  /\ selectedDimensions = <<>>
  /\ dimensionList = <<>>
  /\ entitiesAttributes = <<>>
  /\ unresolved = <<>>
  /\ mappedCount = 0
  /\ variantUnresolved = <<>>
  /\ variantMappedCount = 0
  /\ variantsKind = ""
  /\ backupFile = NoFile
  /\ outputFile = NoFile
  /\ stderr = <<>>
  /\ exitCode = -1
  /\ variantsRun = NotRun

CellSpec == CellInit /\ [][Next]_vars

(* ---------- the same run over a workbook that varies one label ---------- *)

MaxLen == 2

IdAlphabet == {"a", "Z", "7", "_", " ", "-"}

\* texts of up to MaxLen characters
IdStrings == UNION {[1..k -> IdAlphabet] : k \in 0..MaxLen}

\* raw label cells: nothing, text, numbers
LabelCells == {NullCell, N(-3), N(12)} \cup {S(s) : s \in IdStrings}

\* CaseTable_X with the cell as a distribution header and as the value of its
\* one data row
LabelWorkbook(c) ==
  << [name |-> CaseTablePrefix \o <<"X">>,
      rows |-> << <<S(<<"V">>), S(<<"S">>), c>>, <<c, N(1), N(1)>> >>] >>

LabelInit ==
  /\ pc = "build"
  /\ workbook \in {LabelWorkbook(c) : c \in LabelCells}
  /\ uuidCount = 0
  /\ selectedDimensions = <<>>
  /\ dimensionList = <<>>
  /\ entitiesAttributes = <<>>
  /\ unresolved = <<>>
  /\ mappedCount = 0
  /\ variantUnresolved = <<>>
  /\ variantMappedCount = 0
  /\ variantsKind = ""
  /\ backupFile = NoFile
  /\ outputFile = NoFile
  /\ stderr = <<>>
  /\ exitCode = -1
  /\ variantsRun = NotRun

LabelSpec == LabelInit /\ [][Next]_vars

(* ---------- the same run over workbooks whose sheet X has no data rows ---------- *)

\* CaseTable_X: completely empty, a header without distribution columns, a
\* header with two of them (one left blank in between)
EmptySheets ==
  {[name |-> CaseTablePrefix \o <<"X">>, rows |-> hs] :
     hs \in { << >>,
              << <<S(<<"V">>), S(<<"S">>)>> >>,
              << <<S(<<"V">>), S(<<"S">>), S(<<"P","k">>), NullCell,
                   S(<<"A","T","T","R","I","B","U","T","E","_","R","g">>)>> >> }}

MetaX ==
  [name |-> MetadataPrefix \o <<"X">>,
   rows |-> << <<S(<<"V">>), S(<<"M">>)>>, <<S(<<"n">>), N(1)>> >>]

\* sheet X alone, followed by its metadata sheet, or among other dimensions
HeaderWorkbooks ==
  UNION {{<<e>>, <<e, MetaX>>, <<e, SheetRg>>, <<SheetCh, e, MetaCh>>} : e \in EmptySheets}

HeaderInit ==
  /\ pc = "build"
  /\ workbook \in HeaderWorkbooks
  /\ uuidCount = 0
  /\ selectedDimensions = <<>>
  /\ dimensionList = <<>>
  /\ entitiesAttributes = <<>>
  /\ unresolved = <<>>
  /\ mappedCount = 0
  /\ variantUnresolved = <<>>
  /\ variantMappedCount = 0
  /\ variantsKind = ""
  /\ backupFile = NoFile
  /\ outputFile = NoFile
  /\ stderr = <<>>
  /\ exitCode = -1
  /\ variantsRun = NotRun

HeaderSpec == HeaderInit /\ [][Next]_vars

(* ---------- the same run over a workbook that varies two header cells ---------- *)

\* header cells of columns C and D: the two prefixes in either case, with and
\* without a remainder, headers without a prefix, headers that clean to
\* nothing, a number, no cell
HeaderCells ==
  {NullCell, N(7), S(<<>>), S(<<"-","-">>), S(<<"P","k">>), S(<<"P","_","k">>),
   S(<<"V","A","R","I","A","N","T","_","P","k">>),
   S(<<"v","a","r","i","a","n","t","_"," ","p","-","k">>),
   S(<<"V","A","R","I","A","N","T","_">>),
   S(<<"V","A","R","I","A","N","T","P","k">>),
   S(<<"A","T","T","R","I","B","U","T","E","_","X">>),
   S(<<"a","t","t","r","i","b","u","t","e","_">>)}

\* CaseTable_X with the two cells as the headers of columns C and D and one
\* data row holding 3 in column C and 5 in column D
ClassifyWorkbook(h1, h2) ==
  << [name |-> CaseTablePrefix \o <<"X">>,
      rows |-> << <<S(<<"V">>), S(<<"S">>), h1, h2>>,
                  <<S(<<"n">>), N(1), N(3), N(5)>> >>] >>

ClassifyInit ==
  /\ pc = "build"
  /\ workbook \in {ClassifyWorkbook(h1, h2) : h1 \in HeaderCells, h2 \in HeaderCells}
  /\ uuidCount = 0
  /\ selectedDimensions = <<>>
  /\ dimensionList = <<>>
  /\ entitiesAttributes = <<>>
  /\ unresolved = <<>>
  /\ mappedCount = 0
  /\ variantUnresolved = <<>>
  /\ variantMappedCount = 0
  /\ variantsKind = ""
  /\ backupFile = NoFile
  /\ outputFile = NoFile
  /\ stderr = <<>>
  /\ exitCode = -1
  /\ variantsRun = NotRun

ClassifySpec == ClassifyInit /\ [][Next]_vars

(* ---------- a run of build-variants.js ---------- *)

caseTableVars ==
  <<pc, workbook, uuidCount, selectedDimensions, dimensionList, entitiesAttributes,
    unresolved, mappedCount, variantUnresolved, variantMappedCount, variantsKind,
    backupFile, outputFile, stderr, exitCode>>

VariantInit ==
  /\ pc = "build"
  /\ workbook = <<>>
  /\ uuidCount = 0
  /\ selectedDimensions = <<>>
  /\ dimensionList = <<>>
  /\ entitiesAttributes = <<>>
  /\ unresolved = <<>>
  /\ mappedCount = 0
  /\ variantUnresolved = <<>>
  /\ variantMappedCount = 0
  /\ variantsKind = ""
  /\ backupFile = NoFile
  /\ outputFile = NoFile
  /\ stderr = <<>>
  /\ exitCode = -1
  /\ variantsRun \in {[NotRun EXCEPT !.pc = "parse", !.sheets = w] : w \in VariantWorkbooks}

\* src/unnamed/part_001 136-138: phase 1, output.json
ParseVariants ==
  /\ variantsRun.pc = "parse"
  /\ variantsRun' =
       [variantsRun EXCEPT !.pc = "link",
          !.tempOutput = VariantsFile(parseWorkbookToJson(variantsRun.sheets, <<>>, 0))]
  /\ UNCHANGED caseTableVars

\* src/unnamed/part_001 141-144, 159-162: no entities.json, or not JSON
LinkEntitiesMissing ==
  /\ variantsRun.pc = "link"
  /\ \E f \in VariantEntitiesFiles : f.kind # "ok"
  /\ variantsRun' = [variantsRun EXCEPT !.pc = "exited", !.exitCode = 1]
  /\ UNCHANGED caseTableVars

\* src/unnamed/part_001 144-158: phase 2, variants.json, output.json deleted
LinkVariants ==
  /\ variantsRun.pc = "link"
  /\ \E f \in VariantEntitiesFiles :
       /\ f.kind = "ok"
       /\ variantsRun' =
            [variantsRun EXCEPT !.pc = "done", !.exitCode = 0,
               !.finalOutput =
                  VariantsFile(linkReferencedIds(variantsRun.tempOutput.variants, f.events)),
               !.tempOutput = NoVariantsFile]
  /\ UNCHANGED caseTableVars

VariantNext ==
  \/ ParseVariants
  \/ LinkEntitiesMissing
  \/ LinkVariants

VariantSpec == VariantInit /\ [][VariantNext]_vars

(* ---------- properties ---------- *)

\* the stages after the Metadata Merger of a run that got past it
PastMetadata == pc \in {"backup", "entities", "reconcile", "synthesize", "variants", "write", "done"}

\* the Metadata Merger has run, whether or not it ended the run
AfterMetadata == pc \notin {"build", "resolve", "metadata"}

MetadataAligned(dims) ==
  \A d \in DOMAIN dims : \A i \in DOMAIN dims[d].items :
    Len(dims[d].items[i].attributesMetadata) = Len(dims[d].attributeMetadataItems)

DistributionsAligned(dims) ==
  \A d \in DOMAIN dims : \A i \in DOMAIN dims[d].items :
    /\ Len(dims[d].items[i].distributions) = Len(dims[d].distributionItems)
    /\ \A k \in DOMAIN dims[d].items[i].distributions :
         dims[d].items[i].distributions[k].distributionItemId = dims[d].distributionItems[k].id

\* C1: after the Metadata Merger, and in the written document, every item of
\* every dimension carries exactly one metadata value per metadata column of
\* its dimension.
C1_MetadataAligned ==
  /\ PastMetadata => MetadataAligned(selectedDimensions)
  /\ outputFile.written => MetadataAligned(outputFile.selectedDimensions)

\* C2: from the end of the build pass on, and in both written documents, every
\* item carries one distribution per distributionItem of its dimension, the
\* k-th one keyed by the id of the k-th distributionItem.
C2_DistributionsAligned ==
  /\ pc # "build" => DistributionsAligned(selectedDimensions)
  /\ backupFile.written => DistributionsAligned(backupFile.selectedDimensions)
  /\ outputFile.written => DistributionsAligned(outputFile.selectedDimensions)

\* a row shorter than its header produced an item with a distribution for every
\* distributionItem, and the run has written its output
C2_Witness ==
  /\ pc = "done"
  /\ \E w \in DOMAIN workbook :
       /\ StartsWith(workbook[w].name, CaseTablePrefix)
       /\ \E r \in DOMAIN workbook[w].rows :
            /\ r > 1
            /\ Len(workbook[w].rows[r]) = 1
            /\ Len(workbook[w].rows[1]) > 3
  /\ \E d \in DOMAIN outputFile.selectedDimensions :
       \E i \in DOMAIN outputFile.selectedDimensions[d].items :
         /\ outputFile.selectedDimensions[d].items[i].value = <<"s">>
         /\ Len(outputFile.selectedDimensions[d].items[i].distributions) = 3

(* ----- duplicate metadata columns (C3, C4) ----- *)

\* 0-based positions, column B onward, of the headers of a sheet that share
\* their non-empty cleaned name, case-insensitively, with another header
DuplicateColumns(sheet) ==
  IF Len(sheet.rows) = 0 THEN {}
  ELSE LET hdr == sheet.rows[1]
           name(c) == ToUpper(cleanIdCell(hdr[c + 1]))
           cols == {c \in 1..(Len(hdr) - 1) : name(c) # <<>>}
       IN {c \in cols : \E c2 \in cols : c2 # c /\ name(c2) = name(c)}

IsMetadataSheet(sheet) == StartsWith(sheet.name, MetadataPrefix)

\* the sheet's name after the prefix names one of the built dimensions
MatchesDimension(sheet) ==
  LET raw == SliceFrom(sheet.name, Len(MetadataPrefix)) IN
  /\ cleanId(raw) # <<>>
  /\ \E d \in DOMAIN selectedDimensions :
       ToUpper(cleanId(selectedDimensions[d].name)) = ToUpper(cleanId(raw))

\* what the diagnostic names: (sheet, column letter, original header text)
Reported ==
  UNION {{<<stderr[d].occurrences[o].sheet, stderr[d].occurrences[o].column,
            stderr[d].occurrences[o].header>> : o \in DOMAIN stderr[d].occurrences} :
         d \in DOMAIN stderr}

\* columns A..Z only
ExpectedReport(sheet) ==
  {<<sheet.name, <<UpperLetters[c + 1]>>, CellToString(sheet.rows[1][c + 1])>> :
     c \in DuplicateColumns(sheet)}

\* the dimensions as the Resolver left them, and the identifiers used up to then
ResolvedFromWorkbook == ResolveAttributes(BuildSelectedDimensions(workbook, <<>>, 0).dims)
UuidsAfterBuild == BuildSelectedDimensions(workbook, <<>>, 0).next

\* C3 as claimed: a Metadata_ sheet with duplicated header names anywhere in
\* the workbook makes the run exit non-zero with every occurrence reported.
C3_AnySheetAborts ==
  AfterMetadata =>
    \A w \in DOMAIN workbook :
      IsMetadataSheet(workbook[w]) /\ DuplicateColumns(workbook[w]) # {} =>
        /\ pc = "exited" /\ exitCode = 1
        /\ \E w2 \in DOMAIN workbook :
             /\ IsMetadataSheet(workbook[w2]) /\ DuplicateColumns(workbook[w2]) # {}
             /\ Reported = ExpectedReport(workbook[w2])

\* the Metadata_ sheets that match a dimension and have duplicated header names
OffendingSheets ==
  {w \in DOMAIN workbook :
     /\ IsMetadataSheet(workbook[w])
     /\ MatchesDimension(workbook[w])
     /\ DuplicateColumns(workbook[w]) # {}}

\* C3 amended: when a Metadata_ sheet that matches a dimension has duplicated
\* header names, the run exits with code 1 in the Metadata Merger, the
\* diagnostic names every occurrence of every duplicated name of the first such
\* sheet, and the dimensions are as the sheets before it left them; without
\* such a sheet the Merger reports nothing and does not exit.
C3_MatchedSheetAborts ==
  AfterMetadata =>
    IF OffendingSheets # {}
      THEN LET w == CHOOSE x \in OffendingSheets : \A y \in OffendingSheets : x <= y IN
           /\ pc = "exited" /\ exitCode = 1
           /\ Reported = ExpectedReport(workbook[w])
           /\ \A d \in DOMAIN stderr : Len(stderr[d].occurrences) >= 2
           /\ selectedDimensions =
                MergeMetadata(SubSeq(workbook, 1, w - 1), ResolvedFromWorkbook, UuidsAfterBuild).dims
           /\ ~backupFile.written /\ ~outputFile.written
      ELSE stderr = <<>> /\ (pc = "exited" => backupFile.written)

\* the run ended on a sheet with two duplicated names, one of them three times,
\* after an earlier Metadata_ sheet had attached its metadata
C3_Witness ==
  /\ pc = "exited" /\ exitCode = 1
  /\ Len(stderr) = 2
  /\ \E d \in DOMAIN stderr : Len(stderr[d].occurrences) = 3
  /\ \E d \in DOMAIN selectedDimensions : selectedDimensions[d].attributeMetadataItems # <<>>

CostUnderscoreA == <<"C","o","s","t","_","A">>
CostA == <<"C","o","s","t","A">>

\* a Metadata_ sheet of a built dimension whose header columns from B onward
\* are "Cost_A" and "CostA"
HasCostColumns(sheet) ==
  /\ IsMetadataSheet(sheet)
  /\ MatchesDimension(sheet)
  /\ Len(sheet.rows) > 0
  /\ Len(sheet.rows[1]) = 3
  /\ sheet.rows[1][2] = StrCell(CostUnderscoreA)
  /\ sheet.rows[1][3] = StrCell(CostA)

ReportedHeaders == {r[3] : r \in Reported}

\* C4 as claimed: with headers "Cost_A" and "CostA" on a metadata sheet of an
\* existing dimension, the run exits non-zero and names both columns.
C4_CostColumnsAbort ==
  AfterMetadata =>
    \A w \in DOMAIN workbook :
      HasCostColumns(workbook[w]) /\ OffendingSheets \subseteq {w} =>
        /\ pc = "exited" /\ exitCode = 1
        /\ {CostUnderscoreA, CostA} \subseteq ReportedHeaders

\* the columns the last Metadata_ sheet that targets dimension d declares
ColumnNames(d) ==
  [k \in DOMAIN selectedDimensions[d].attributeMetadataItems |->
     selectedDimensions[d].attributeMetadataItems[k].columnName]

TargetOf(sheet) ==
  findDimensionByCleanName(selectedDimensions, DimNameOf(sheet.name, MetadataPrefix))

\* C4 amended: clean keeps the underscore, so "Cost_A" and "CostA" are two
\* identifiers: the diagnostic never names either of them as a duplicate, and
\* when the Merger finishes and their sheet is the last one for its dimension,
\* the dimension has the two columns Cost_A and CostA, in sheet order.
C4_UnderscoreDistinguishes ==
  AfterMetadata =>
    \A w \in DOMAIN workbook :
      HasCostColumns(workbook[w]) =>
        /\ \A r \in Reported : r[1] # workbook[w].name
        /\ (/\ PastMetadata
            /\ \A w2 \in (w + 1)..Len(workbook) :
                 IsMetadataSheet(workbook[w2]) => TargetOf(workbook[w2]) # TargetOf(workbook[w]))
           => ColumnNames(TargetOf(workbook[w])) = <<CostUnderscoreA, CostA>>

\* the Merger ran over a sheet with the headers "Cost_A" and "CostA" and went on
C4_Witness ==
  /\ pc = "backup"
  /\ stderr = <<>>
  /\ \E w \in DOMAIN workbook : HasCostColumns(workbook[w])
  /\ \E d \in DOMAIN selectedDimensions : ColumnNames(d) = <<CostUnderscoreA, CostA>>

(* ----- the WHEREIS addressing of ATTRIBUTE distributionItems (C5, C6) ----- *)

AfterResolve == pc \notin {"build", "resolve"}

\* (d, k) of the ATTRIBUTE distributionItems whose alias carries the marker
MarkerItems ==
  {dk \in UNION {{<<d, k>> : k \in DOMAIN selectedDimensions[d].distributionItems} :
                 d \in DOMAIN selectedDimensions} :
     /\ selectedDimensions[dk[1]].distributionItems[dk[2]].type = "ATTRIBUTE"
     /\ IndexOf(ToUpper(selectedDimensions[dk[1]].distributionItems[dk[2]].alias), WhereIs) >= 0}

DistAt(dk) == selectedDimensions[dk[1]].distributionItems[dk[2]]

TextBefore(alias) == SubSeq(alias, 1, IndexOf(ToUpper(alias), WhereIs))
TextAfter(alias) == SubSeq(alias, IndexOf(ToUpper(alias), WhereIs) + Len(WhereIs) + 1, Len(alias))

\* first dimension whose cleaned name equals text case-insensitively (0: none)
NamedDimension(text) ==
  LET hits == {d \in DOMAIN selectedDimensions :
                 ToUpper(cleanId(selectedDimensions[d].name)) = ToUpper(text)}
  IN IF hits = {} THEN 0 ELSE CHOOSE d \in hits : \A e \in hits : d <= e

\* first item of dimension d whose cleaned value equals text case-insensitively
NamedItem(d, text) ==
  LET hits == {i \in DOMAIN selectedDimensions[d].items :
                 ToUpper(cleanId(selectedDimensions[d].items[i].value)) = ToUpper(text)}
  IN IF hits = {} THEN 0 ELSE CHOOSE i \in hits : \A j \in hits : i <= j

\* C5 as claimed: referencedId is the id of the dimension whose cleaned name
\* equals the text before the marker (null if none), referencedItemId the id of
\* that dimension's item whose cleaned value equals the text after it (null if
\* none); exact, case-insensitive.
C5_MarkerResolution ==
  AfterResolve =>
    \A dk \in MarkerItems :
      LET dist == DistAt(dk)
          d == NamedDimension(TextBefore(dist.alias))
          i == IF d = 0 THEN 0 ELSE NamedItem(d, TextAfter(dist.alias))
      IN /\ dist.referencedId = IF d = 0 THEN Null ELSE selectedDimensions[d].id
         /\ dist.referencedItemId = IF i = 0 THEN Null ELSE selectedDimensions[d].items[i].id

\* C5 amended: as claimed for a non-empty text before and after the marker; an
\* empty text before the marker names no dimension and an empty text after it
\* names no item, even when a dimension name or an item value cleans to the
\* empty string.
C5_NonEmptyMarkerResolution ==
  AfterResolve =>
    \A dk \in MarkerItems :
      LET dist == DistAt(dk)
          before == TextBefore(dist.alias)
          after == TextAfter(dist.alias)
          d == IF before = <<>> THEN 0 ELSE NamedDimension(before)
          i == IF d = 0 \/ after = <<>> THEN 0 ELSE NamedItem(d, after)
      IN /\ dist.referencedId = IF d = 0 THEN Null ELSE selectedDimensions[d].id
         /\ dist.referencedItemId = IF i = 0 THEN Null ELSE selectedDimensions[d].items[i].id

\* one alias resolved to a dimension and an item across case and spacing, while
\* an alias naming only a prefix of a dimension name resolved to nothing
C5_Witness ==
  /\ pc = "metadata"
  /\ \E dk \in MarkerItems :
       /\ DistAt(dk).alias = <<"R","g","W","H","E","R","E","I","S","n">>
       /\ DistAt(dk).referencedId # Null
       /\ DistAt(dk).referencedItemId # Null
  /\ \E dk \in MarkerItems :
       /\ DistAt(dk).alias = <<"R","W","H","E","R","E","I","S","n">>
       /\ DistAt(dk).referencedId = Null
       /\ DistAt(dk).referencedItemId = Null

\* the named dimension exists / the named item exists in it
DimensionExists(alias) == TextBefore(alias) # <<>> /\ NamedDimension(TextBefore(alias)) # 0
ItemExists(alias) ==
  /\ DimensionExists(alias)
  /\ TextAfter(alias) # <<>>
  /\ NamedItem(NamedDimension(TextBefore(alias)), TextAfter(alias)) # 0

\* C6 as claimed: both ids when dimension and item exist, otherwise both null;
\* the Resolver raises no error.
C6_BothOrNeither ==
  /\ pc = "metadata" => exitCode = -1 /\ stderr = <<>>
  /\ AfterResolve =>
       \A dk \in MarkerItems :
         IF ItemExists(DistAt(dk).alias)
           THEN DistAt(dk).referencedId # Null /\ DistAt(dk).referencedItemId # Null
           ELSE DistAt(dk).referencedId = Null /\ DistAt(dk).referencedItemId = Null

\* C6 amended: dimension and item exist: both ids; dimension missing: both
\* null; dimension present but item missing: referencedId is the dimension's id
\* and only referencedItemId is null; the Resolver raises no error.
C6_DimensionWithoutItem ==
  /\ pc = "metadata" => exitCode = -1 /\ stderr = <<>>
  /\ AfterResolve =>
       \A dk \in MarkerItems :
         LET alias == DistAt(dk).alias
             d == NamedDimension(TextBefore(alias))
         IN /\ ItemExists(alias) =>
                 /\ DistAt(dk).referencedId = selectedDimensions[d].id
                 /\ DistAt(dk).referencedItemId =
                      selectedDimensions[d].items[NamedItem(d, TextAfter(alias))].id
            /\ ~DimensionExists(alias) =>
                 DistAt(dk).referencedId = Null /\ DistAt(dk).referencedItemId = Null
            /\ DimensionExists(alias) /\ ~ItemExists(alias) =>
                 /\ DistAt(dk).referencedId = selectedDimensions[d].id
                 /\ DistAt(dk).referencedItemId = Null

\* the Resolver met an alias whose dimension exists and whose item does not
C6_Witness ==
  /\ pc = "metadata"
  /\ \E dk \in MarkerItems :
       /\ DimensionExists(DistAt(dk).alias)
       /\ ~ItemExists(DistAt(dk).alias)
       /\ TextAfter(DistAt(dk).alias) # <<>>
       /\ DistAt(dk).referencedId # Null
       /\ DistAt(dk).referencedItemId = Null

(* ----- the Missing-Dimension Synthesizer (C7, C8) ----- *)

AfterSynthesize == pc \in {"variants", "write", "done"}

\* C7 as claimed: a second application of the Synthesizer, to the dimension set
\* it produced in memory and to the dimension set of the written document,
\* adds no dimension.
C7_SecondRunAddsNothing ==
  /\ AfterSynthesize =>
       MissingAttributes(dimensionList \o selectedDimensions, entitiesAttributes) = <<>>
  /\ pc = "done" =>
       MissingAttributes(outputFile.dimensionList \o outputFile.selectedDimensions,
                         entitiesAttributes) = <<>>

NoUnderscoreInCatalog ==
  \A a \in DOMAIN entitiesAttributes :
    \A c \in DOMAIN entitiesAttributes[a].name : entitiesAttributes[a].name[c] # "_"

\* C7 amended: a second application to the dimension set held in memory adds
\* no dimension, for every catalog; a second application to the written
\* (sanitized) document adds none when no attribute name has an underscore.
C7_SecondRunInMemory ==
  /\ AfterSynthesize =>
       MissingAttributes(dimensionList \o selectedDimensions, entitiesAttributes) = <<>>
  /\ pc = "done" /\ NoUnderscoreInCatalog =>
       MissingAttributes(outputFile.dimensionList \o outputFile.selectedDimensions,
                         entitiesAttributes) = <<>>

\* the Synthesizer added placeholders for two attributes that clean to the same
\* name and for one whose name has an underscore
C7_Witness ==
  /\ pc = "done"
  /\ \E i, j \in DOMAIN dimensionList :
       /\ i # j
       /\ ToUpper(cleanId(dimensionList[i].name)) = ToUpper(cleanId(dimensionList[j].name))
  /\ \E i \in DOMAIN dimensionList : \E c \in DOMAIN dimensionList[i].name :
       dimensionList[i].name[c] = "_"

\* attribute a is covered by a case-table dimension of the same cleaned name
CoveredByDimension(a) ==
  \E d \in DOMAIN selectedDimensions :
    ToUpper(cleanId(selectedDimensions[d].name)) = ToUpper(cleanId(entitiesAttributes[a].name))

\* attribute a is covered by an empty placeholder of its id and original name
CoveredByPlaceholder(a) ==
  \E p \in DOMAIN dimensionList :
    /\ dimensionList[p].referencedId = entitiesAttributes[a].id
    /\ dimensionList[p].name = entitiesAttributes[a].name
    /\ dimensionList[p].items = <<>>
    /\ dimensionList[p].distributionItems = <<>>
    /\ dimensionList[p].attributeMetadataItems = <<>>

\* C8 as claimed: after the Synthesizer every catalog attribute is covered.
C8_EveryAttributeCovered ==
  AfterSynthesize =>
    \A a \in DOMAIN entitiesAttributes : CoveredByDimension(a) \/ CoveredByPlaceholder(a)

\* C8 amended: after the Synthesizer every catalog attribute whose cleaned name
\* is not empty is covered.
C8_NamedAttributesCovered ==
  AfterSynthesize =>
    \A a \in DOMAIN entitiesAttributes :
      cleanId(entitiesAttributes[a].name) # <<>> =>
        CoveredByDimension(a) \/ CoveredByPlaceholder(a)

\* the catalog had one attribute covered by a case-table dimension and one
\* covered by a placeholder
C8_Witness ==
  /\ pc = "variants"
  /\ \E a \in DOMAIN entitiesAttributes : CoveredByDimension(a) /\ ~CoveredByPlaceholder(a)
  /\ \E a \in DOMAIN entitiesAttributes : CoveredByPlaceholder(a) /\ ~CoveredByDimension(a)

(* ----- referencedId of a dimension and the entity reconciliation (C9, C10) ----- *)

CaseSheets == SelectSeq(workbook, LAMBDA s : StartsWith(s.name, CaseTablePrefix))

AfterReconcile == pc \in {"synthesize", "variants", "write", "done"}

CatalogIds == {entitiesAttributes[a].id : a \in DOMAIN entitiesAttributes}

\* the sheet name of dimension d after the CaseTable_ prefix
Remainder(d) == SubSeq(CaseSheets[d].name, Len(CaseTablePrefix) + 1, Len(CaseSheets[d].name))

\* C9 as claimed: referencedId of a case-table dimension is never null and is a
\* catalog attribute id or the cleaned name derived from the sheet name.
C9_CleanNameOrCatalogId ==
  pc # "build" =>
    /\ Len(selectedDimensions) = Len(CaseSheets)
    /\ \A d \in DOMAIN selectedDimensions :
         /\ selectedDimensions[d].referencedId # Null
         /\ \/ selectedDimensions[d].referencedId = cleanId(Remainder(d))
            \/ AfterReconcile /\ selectedDimensions[d].referencedId \in CatalogIds

\* C9 amended: referencedId is never null and is a catalog attribute id or the
\* name the builder derived from the sheet name: the cleaned remainder, or the
\* remainder as written when it cleans to the empty string.
C9_DerivedNameOrCatalogId ==
  pc # "build" =>
    /\ Len(selectedDimensions) = Len(CaseSheets)
    /\ \A d \in DOMAIN selectedDimensions :
         /\ selectedDimensions[d].referencedId # Null
         /\ \/ selectedDimensions[d].referencedId =
                 IF cleanId(Remainder(d)) # <<>> THEN cleanId(Remainder(d)) ELSE Remainder(d)
            \/ AfterReconcile /\ selectedDimensions[d].referencedId \in CatalogIds

\* after reconciliation one dimension refers to a catalog attribute and another
\* still carries its name
C9_Witness ==
  /\ pc = "done"
  /\ \E d \in DOMAIN selectedDimensions :
       /\ selectedDimensions[d].referencedId \in CatalogIds
       /\ selectedDimensions[d].referencedId # selectedDimensions[d].name
  /\ \E d \in DOMAIN selectedDimensions :
       /\ selectedDimensions[d].referencedId \notin CatalogIds
       /\ selectedDimensions[d].referencedId = selectedDimensions[d].name

\* the catalog attributes with the cleaned, upper-cased name of text
AttributesNamed(text) ==
  {a \in DOMAIN entitiesAttributes :
     ToUpper(cleanId(entitiesAttributes[a].name)) = ToUpper(cleanId(text))}

\* C10 as claimed: a referencedId that is not identifier-shaped is replaced by
\* the id of a catalog attribute of the same cleaned, upper-cased name; without
\* such an attribute it is kept and recorded as unresolved; an identifier-shaped
\* one is kept; the pass does not end the run.
C10_HitReplacesMissRecords ==
  [][pc = "reconcile" =>
       /\ pc' = "synthesize" /\ exitCode' = exitCode
       /\ \A d \in DOMAIN selectedDimensions :
            LET rid == selectedDimensions[d].referencedId IN
            IF uuidRegex(rid) THEN selectedDimensions'[d].referencedId = rid
            ELSE IF AttributesNamed(rid) # {}
              THEN \E a \in AttributesNamed(rid) :
                     selectedDimensions'[d].referencedId = entitiesAttributes[a].id
            ELSE /\ selectedDimensions'[d].referencedId = rid
                 /\ \E u \in DOMAIN unresolved' : unresolved'[u] = rid]_vars

\* C10 amended: for a referencedId that is not identifier-shaped and whose
\* cleaned name is not empty: when the last catalog attribute of that cleaned,
\* upper-cased name has a non-empty id, referencedId becomes that id; otherwise
\* it is kept and recorded as unresolved.  An identifier-shaped referencedId, or
\* one that cleans to the empty string, is kept and not recorded.  The pass
\* does not end the run.
C10_NamedHitReplacesMissRecords ==
  [][pc = "reconcile" =>
       /\ pc' = "synthesize" /\ exitCode' = exitCode
       /\ Len(selectedDimensions') = Len(selectedDimensions)
       /\ \A d \in DOMAIN selectedDimensions :
            LET rid == selectedDimensions[d].referencedId
                named == AttributesNamed(rid)
                last == CHOOSE a \in named : \A b \in named : b <= a
            IN IF uuidRegex(rid) \/ cleanId(rid) = <<>>
                 THEN /\ selectedDimensions'[d].referencedId = rid
                      /\ \A u \in DOMAIN unresolved' : unresolved'[u] # rid
               ELSE IF named # {} /\ entitiesAttributes[last].id # <<>>
                 THEN selectedDimensions'[d].referencedId = entitiesAttributes[last].id
               ELSE /\ selectedDimensions'[d].referencedId = rid
                    /\ \E u \in DOMAIN unresolved' : unresolved'[u] = rid]_vars

\* the pass has replaced one referencedId and recorded another as unresolved
C10_Witness ==
  /\ pc = "synthesize"
  /\ mappedCount >= 1
  /\ unresolved # <<>>
  /\ \E d \in DOMAIN selectedDimensions : selectedDimensions[d].referencedId \in CatalogIds
  /\ \E d \in DOMAIN selectedDimensions :
       \E u \in DOMAIN unresolved : unresolved[u] = selectedDimensions[d].referencedId

(* ---------- C11: a variant catalog that is absent, unparseable or misshapen ---------- *)

SkippedKinds == {"absent", "unparseable", "badshape"}

\* C11: when variants.json is absent, cannot be parsed or lacks variants.items,
\* the variants stage changes no field of any distributionItem and counts no
\* mapping, the run goes on to the final write, and the write ends the run with
\* the output document on disk and exit status 0.
C11_SkipLeavesDistributionItems ==
  [][/\ (pc = "variants" /\ variantsKind' \in SkippedKinds) =>
          /\ AllDistributionItems(selectedDimensions') = AllDistributionItems(selectedDimensions)
          /\ variantMappedCount' = 0 /\ variantUnresolved' = <<>>
          /\ pc' = "write" /\ exitCode' = -1
     /\ (pc = "write" /\ variantsKind \in SkippedKinds) =>
          /\ pc' = "done" /\ exitCode' = 0 /\ outputFile'.written
          /\ AllDistributionItems(selectedDimensions') = AllDistributionItems(selectedDimensions)
    ]_vars

\* a finished run whose catalog listed group Pk under another key, with a
\* VARIANT distributionItem Pk still carrying its name
C11_Witness ==
  /\ pc = "done" /\ variantsKind = "badshape" /\ exitCode = 0 /\ outputFile.written
  /\ \E i \in DOMAIN AllDistributionItems(selectedDimensions) :
       LET dist == AllDistributionItems(selectedDimensions)[i] IN
       dist.type = "VARIANT" /\ dist.referencedId = <<"P","k">>

(* ---------- C12: the order of the stages ---------- *)

\* a step from stage `from` to stage `to` follows the order `order`, or ends the
\* run where the script can end it
FollowsOrder(order, from, to) ==
  \/ to = "exited" /\ from \in {"metadata", "entities"}
  \/ \E i \in 1..(Len(order) - 1) : order[i] = from /\ order[i + 1] = to

\* what each stage, and no other, writes
StageEffects ==
  /\ selectedDimensions' # selectedDimensions =>
       pc \in {"build", "resolve", "metadata", "reconcile", "variants"}
  /\ dimensionList' # dimensionList => pc = "synthesize"
  /\ <<unresolved', mappedCount'>> # <<unresolved, mappedCount>> => pc = "reconcile"
  /\ <<variantUnresolved', variantMappedCount'>> # <<variantUnresolved, variantMappedCount>> =>
       pc = "variants"
  /\ outputFile' # outputFile => pc \in {"entities", "write"}

ClaimedOrder ==
  <<"build", "resolve", "metadata", "backup", "entities", "reconcile", "variants",
    "synthesize", "write", "done">>

ScriptOrder ==
  <<"build", "resolve", "metadata", "backup", "entities", "reconcile", "synthesize",
    "variants", "write", "done">>

TheCell == workbook[1].rows[2][2]

Floored(n) == IF n <= 0 THEN 1 ELSE n

\* null or a number above zero
NullOrPositive(v) == v.k = "null" \/ (v.k = "num" /\ v.n > 0)

\* every stdDistribution and every distribution value of these dimensions
BuiltNumbers(dims) ==
  UNION {{dims[d].items[i].stdDistribution : i \in DOMAIN dims[d].items}
         \cup UNION {{dims[d].items[i].distributions[k].value :
                        k \in DOMAIN dims[d].items[i].distributions} :
                      i \in DOMAIN dims[d].items} :
         d \in DOMAIN dims}

\* C13: parseNumberOrNullCell of a finite number n is 1 when n <= 0 and n when
\* n > 0, the Builder stores exactly that for a numeric cell, and no
\* stdDistribution or distribution value, in memory or written, is zero or negative.
C13_FloorToOne ==
  /\ \A n \in (-MaxNum)..MaxNum : parseNumberOrNullCell(NumCell(n)) = NumCell(Floored(n))
  /\ pc # "build" =>
       /\ \A v \in BuiltNumbers(selectedDimensions) : NullOrPositive(v)
       /\ \A v \in BuiltNumbers(outputFile.selectedDimensions) : NullOrPositive(v)
       /\ TheCell.k = "num" =>
            /\ selectedDimensions[1].items[1].stdDistribution = NumCell(Floored(TheCell.n))
            /\ selectedDimensions[1].items[1].distributions[1].value = NumCell(Floored(TheCell.n))

\* a written document whose item was built from a numeric cell at or below zero
C13_Witness ==
  /\ pc = "done" /\ TheCell.k = "num" /\ TheCell.n <= 0
  /\ outputFile.selectedDimensions[1].items[1].stdDistribution = NumCell(1)
  /\ outputFile.selectedDimensions[1].items[1].distributions[1].value = NumCell(1)

(* ---------- C14: metadataCellValue against parseNumberOrNullCell ---------- *)

\* what the Builder and the Merger made of the cell
ParsedNumber == selectedDimensions[1].items[1].stdDistribution
ParsedMetadata == selectedDimensions[1].items[1].attributesMetadata[1].value

\* text that is a number as it stands once trimmed
NumericLooking(c) ==
  c.k = "str" /\ Trim(c.s) # <<>> /\ StrToNumber(Trim(c.s)).finite

\* C14 as claimed: for a numeric cell and for numeric-looking text alike, the
\* metadata value is the string form of the number parseNumberOrNullCell gives,
\* "1" where that number was floored.
C14_SharedFloorAllValues ==
  AfterMetadata /\ (TheCell.k = "num" \/ NumericLooking(TheCell)) =>
    /\ Len(selectedDimensions[1].items[1].attributesMetadata) = 1
    /\ ParsedNumber.k = "num"
    /\ ParsedMetadata = NumToStr(ParsedNumber.n)

\* C14: for a numeric cell n both functions floor alike (1 and "1" when n <= 0,
\* n and its string form when n > 0); for text, metadataCellValue gives the
\* trimmed text unchanged (null when blank) whatever parseNumberOrNullCell
\* makes of it, and null for an absent cell.
C14_SharedFloorNumericCells ==
  AfterMetadata =>
    /\ Len(selectedDimensions[1].items[1].attributesMetadata) = 1
    /\ TheCell.k = "num" =>
         /\ ParsedNumber = NumCell(Floored(TheCell.n))
         /\ ParsedMetadata = NumToStr(Floored(TheCell.n))
    /\ TheCell.k \in {"str", "bool"} =>
         ParsedMetadata = IF Trim(TheCell.s) = <<>> THEN Null ELSE Trim(TheCell.s)
    /\ TheCell.k = "null" => ParsedMetadata = Null

\* a finished run over a numeric cell at or below zero: 1 and "1"
C14_Witness ==
  /\ pc = "done" /\ TheCell.k = "num" /\ TheCell.n <= 0
  /\ ParsedNumber = NumCell(1) /\ ParsedMetadata = <<"1">>

(* ---------- C15: the final sanitization ---------- *)

\* every string value held in a list of dimensions (null is no string)
StringsOf(dims) ==
  (UNION {
     {dims[d].id, dims[d].name, dims[d].referencedId}
     \cup UNION {{dims[d].items[i].id, dims[d].items[i].value}
                 \cup {dims[d].items[i].distributions[k].distributionItemId :
                         k \in DOMAIN dims[d].items[i].distributions}
                 \cup UNION {{dims[d].items[i].attributesMetadata[k].metadataItemId,
                              dims[d].items[i].attributesMetadata[k].value} :
                             k \in DOMAIN dims[d].items[i].attributesMetadata} :
                 i \in DOMAIN dims[d].items}
     \cup UNION {{dims[d].distributionItems[k].id, dims[d].distributionItems[k].referencedId,
                  dims[d].distributionItems[k].referencedItemId,
                  dims[d].distributionItems[k].alias} : k \in DOMAIN dims[d].distributionItems}
     \cup UNION {{dims[d].attributeMetadataItems[k].id,
                  dims[d].attributeMetadataItems[k].columnName} :
                 k \in DOMAIN dims[d].attributeMetadataItems} :
     d \in DOMAIN dims}) \ {Null}

HasUnderscore(s) == \E c \in DOMAIN s : s[c] = "_"

Untrimmed(s) == s # <<>> /\ (IsWhitespace(s[1]) \/ IsWhitespace(s[Len(s)]))

\* the name a string is written under
Written(s) == IF s = Null THEN Null ELSE Trim(SelectSeq(s, LAMBDA c : c # "_"))

\* C15: the final write leaves selectedDimensions and dimensionList in memory
\* as they were and writes a copy in which no string has an underscore or outer
\* whitespace, each name being the in-memory name without its underscores; up to
\* then every dimension carries the name derived from its sheet and every
\* placeholder the catalog's own attribute name, underscores included.
C15_SanitizedCopyOnly ==
  [][/\ pc = "write" =>
          /\ selectedDimensions' = selectedDimensions /\ dimensionList' = dimensionList
          /\ outputFile'.written /\ pc' = "done"
          /\ \A s \in StringsOf(outputFile'.selectedDimensions)
                      \cup StringsOf(outputFile'.dimensionList) :
                ~HasUnderscore(s) /\ ~Untrimmed(s)
          /\ Len(outputFile'.selectedDimensions) = Len(selectedDimensions)
          /\ Len(outputFile'.dimensionList) = Len(dimensionList)
          /\ \A d \in DOMAIN selectedDimensions :
                /\ outputFile'.selectedDimensions[d].name = Written(selectedDimensions[d].name)
                /\ outputFile'.selectedDimensions[d].referencedId =
                     Written(selectedDimensions[d].referencedId)
          /\ \A d \in DOMAIN dimensionList :
                outputFile'.dimensionList[d].name = Written(dimensionList[d].name)
     /\ pc \notin {"build", "exited"} =>
          /\ \A d \in DOMAIN selectedDimensions :
                selectedDimensions[d].name = DimNameOf(CaseSheets[d].name, CaseTablePrefix)
          /\ \A d \in DOMAIN dimensionList :
                \E a \in DOMAIN entitiesAttributes :
                  dimensionList[d].name = entitiesAttributes[a].name
    ]_vars

\* a finished run whose dimension C_h and placeholder N_w keep their underscores
\* in memory and are written as Ch and Nw
C15_Witness ==
  /\ pc = "done"
  /\ \E d \in DOMAIN selectedDimensions :
       /\ selectedDimensions[d].name = <<"C","_","h">>
       /\ outputFile.selectedDimensions[d].name = <<"C","h">>
  /\ \E d \in DOMAIN dimensionList :
       /\ dimensionList[d].name = <<"N","_","w">>
       /\ outputFile.dimensionList[d].name = <<"N","w">>

(* ---------- C16: what the Builder makes of a case-table sheet ---------- *)

\* the 1-based numbers of the data rows that are not fully empty and have
\* something in column A, in row order
KeptRowNumbers(rows) ==
  SelectSeq([r \in 1..(Len(rows) - 1) |-> r + 1],
            LAMBDA r : /\ Len(rows[r]) >= 1
                       /\ ~isCellEmpty(rows[r][1])
                       /\ \E c \in DOMAIN rows[r] : ~isCellEmpty(rows[r][c]))

\* the items of dimension d are the kept rows of its sheet, in row order, with
\* value = clean(column A) and stdDistribution = parseNumber(column B)
ItemsFollowRows(d) ==
  LET rows == CaseSheets[d].rows
      kept == KeptRowNumbers(rows)
      items == selectedDimensions[d].items
  IN /\ Len(items) = Len(kept)
     /\ \A j \in DOMAIN items :
          /\ items[j].value = cleanIdCell(rows[kept[j]][1])
          /\ items[j].stdDistribution = parseNumberOrNullCell(CellAt(rows[kept[j]], 1))

\* the example sheet of the specification
RegionSheet ==
  [name |-> CaseTablePrefix \o <<"R","e","g","i","o","n">>,
   rows |-> << <<S(<<"V","a","l","u","e">>), S(<<"S","t","d","D","i","s","t">>),
                 S(<<"V","A","R","I","A","N","T","_","P","e","a","k">>),
                 S(<<"A","T","T","R","I","B","U","T","E","_","C","h","a","n","n","e","l">>)>>,
               <<S(<<"n","o","r","t","h">>), N(2), N(5), S(<<"o","n","l","i","n","e">>)>> >>]

\* dimension Region, one item north with stdDistribution 2 and two distributions
RegionExample ==
  LET dim == BuildDimension(RegionSheet, 0).dim IN
  /\ dim.name = <<"R","e","g","i","o","n">>
  /\ Len(dim.items) = 1
  /\ dim.items[1].value = <<"n","o","r","t","h">>
  /\ dim.items[1].stdDistribution = NumCell(2)
  /\ Len(dim.distributionItems) = 2
  /\ Len(dim.items[1].distributions) = 2
  /\ \A k \in 1..2 : dim.items[1].distributions[k].distributionItemId = dim.distributionItems[k].id

\* C16 as claimed: one dimension per case-table sheet, named by the cleaned
\* remainder of the sheet name, with the kept rows as its items.
C16_NameIsCleanedRemainder ==
  /\ RegionExample
  /\ pc # "build" =>
       /\ Len(selectedDimensions) = Len(CaseSheets)
       /\ \A d \in DOMAIN selectedDimensions :
            /\ selectedDimensions[d].name = cleanId(Remainder(d))
            /\ ItemsFollowRows(d)

\* C16: one dimension per case-table sheet, in sheet order, named by the
\* cleaned remainder of the sheet name, or by the remainder as it stands when it
\* cleans to nothing, with the kept rows as its items.
C16_NameIsCleanedOrRawRemainder ==
  /\ RegionExample
  /\ pc # "build" =>
       /\ Len(selectedDimensions) = Len(CaseSheets)
       /\ \A d \in DOMAIN selectedDimensions :
            /\ selectedDimensions[d].name =
                 (IF cleanId(Remainder(d)) = <<>> THEN Remainder(d) ELSE cleanId(Remainder(d)))
            /\ ItemsFollowRows(d)

\* a sheet with a data row that has cells but nothing in column A, built into a
\* dimension with fewer items than data rows
C16_Witness ==
  /\ pc # "build"
  /\ \E d \in DOMAIN selectedDimensions :
       LET rows == CaseSheets[d].rows IN
       /\ \E r \in 2..Len(rows) : isCellEmpty(CellAt(rows[r], 0)) /\ ~RowEmpty(rows[r])
       /\ selectedDimensions[d].items # <<>>
       /\ Len(selectedDimensions[d].items) < Len(rows) - 1

(* ---------- C17: a case-table sheet without data rows ---------- *)

\* completely empty, or a header row only
NoDataRows(sheet) == Len(sheet.rows) <= 1

\* the header columns from C onward whose cleaned header is not empty
HeaderColumns(sheet) ==
  IF sheet.rows = <<>> THEN {}
  ELSE {c \in 3..Len(sheet.rows[1]) : cleanIdCell(sheet.rows[1][c]) # <<>>}

\* the dimensions of a document, or of memory, stand one to one for the
\* case-table sheets, and those of sheets without data rows have no items
KeptEmpty(dims) ==
  /\ Len(dims) = Len(CaseSheets)
  /\ \A d \in DOMAIN dims : NoDataRows(CaseSheets[d]) => dims[d].items = <<>>

\* C17 as claimed: a sheet without data rows gives one dimension with no items
\* and no distributionItems, kept to the written document.
C17_EmptyItemsAndDistributionItems ==
  pc # "build" =>
    /\ KeptEmpty(selectedDimensions)
    /\ outputFile.written => KeptEmpty(outputFile.selectedDimensions)
    /\ \A d \in DOMAIN selectedDimensions :
         NoDataRows(CaseSheets[d]) => selectedDimensions[d].distributionItems = <<>>

\* C17: a sheet without data rows gives one dimension with no items, kept to
\* the written document; it has no distributionItems when the sheet is
\* completely empty, and one per non-empty header column from C onward when the
\* sheet has a header row.
C17_EmptyItemsHeaderDistributionItems ==
  pc # "build" =>
    /\ KeptEmpty(selectedDimensions)
    /\ outputFile.written => KeptEmpty(outputFile.selectedDimensions)
    /\ \A d \in DOMAIN selectedDimensions :
         NoDataRows(CaseSheets[d]) =>
           /\ Len(selectedDimensions[d].distributionItems) = Cardinality(HeaderColumns(CaseSheets[d]))
           /\ outputFile.written =>
                Len(outputFile.selectedDimensions[d].distributionItems)
                  = Cardinality(HeaderColumns(CaseSheets[d]))

\* a written document with the dimension of a header-only sheet: no items, two
\* distributionItems
C17_Witness ==
  /\ pc = "done"
  /\ \E d \in DOMAIN selectedDimensions :
       /\ Len(CaseSheets[d].rows) = 1
       /\ outputFile.selectedDimensions[d].items = <<>>
       /\ Len(outputFile.selectedDimensions[d].distributionItems) = 2

(* ---------- C18: cleanId ---------- *)

\* the label cell a workbook of LabelSpec varies
TheLabel == workbook[1].rows[2][1]

\* [A-Za-z0-9_]
IdChars == Range(LowerLetters) \cup Range(UpperLetters) \cup Range(Digits) \cup {"_"}

\* C18: cleanId of nothing and of the empty text is the empty text; for every
\* label, cleaning the cleaned label changes nothing and the cleaned label holds
\* only characters of [A-Za-z0-9_]; the Builder stores the cleaned label as the
\* item value, and as the alias of the distributionItem, which it gets by
\* cleaning the cleaned header once more.
C18_CleanIdempotentTotal ==
  /\ cleanIdCell(NullCell) = <<>> /\ cleanId(<<>>) = <<>>
  /\ LET c == cleanIdCell(TheLabel) IN
       /\ cleanId(c) = c
       /\ \A i \in DOMAIN c : c[i] \in IdChars
       /\ pc # "build" =>
            /\ \A j \in DOMAIN selectedDimensions[1].items :
                 selectedDimensions[1].items[j].value = c
            /\ (selectedDimensions[1].items = <<>>) = isCellEmpty(TheLabel)
            /\ \A k \in DOMAIN selectedDimensions[1].distributionItems :
                 selectedDimensions[1].distributionItems[k].alias = c
            /\ (selectedDimensions[1].distributionItems = <<>>) = (c = <<>>)

\* a finished run over the label "-a": item value and alias are "a"
C18_Witness ==
  /\ pc = "done"
  /\ TheLabel = S(<<"-", "a">>)
  /\ selectedDimensions[1].items[1].value = <<"a">>
  /\ selectedDimensions[1].distributionItems[1].alias = <<"a">>

(* ---------- C19: the automation rule of the variant builder ---------- *)

\* the column E cell a workbook of VariantSpec varies, and the item made of its row
TheAutomation == variantsRun.sheets[2].rows[1].e

\* the files of the variant builder that are on disk
VariantFiles == {f \in {variantsRun.tempOutput, variantsRun.finalOutput} : f.written}

\* C19: a negative automation cell (-0.5 for one) gives automation 0, a cell
\* v >= 0 gives 100 * v, no automation written is negative, and the case-table
\* rule differs: it raises zero and negative numbers to 1.
C19_AutomationFloorZero ==
  /\ automationRule(-5) = 0 /\ automationRule(0) = 0
  /\ parseNumberOrNullCell(NumCell(-5)) = NumCell(1)
  /\ parseNumberOrNullCell(NumCell(0)) = NumCell(1)
  /\ \A f \in VariantFiles :
       /\ Len(f.variants) = 1 /\ f.variants[1].items # <<>>
       /\ \A i \in DOMAIN f.variants[1].items : f.variants[1].items[i].automation >= 0
       /\ TheAutomation.k = "num" =>
            f.variants[1].items[1].automation =
              (IF TheAutomation.n < 0 THEN 0 ELSE 100 * TheAutomation.n)

\* variants.json written for a sheet whose automation cell is -0.5
C19_Witness ==
  /\ variantsRun.pc = "done"
  /\ TheAutomation = NumCell(-5)
  /\ variantsRun.finalOutput.written
  /\ variantsRun.finalOutput.variants[1].items[1].automation = 0

(* ---------- C20: catalog attributes that clean to the same name ---------- *)

\* the catalog attributes whose cleaned upper-cased name is that of dimension d
SameNamed(d) ==
  {a \in DOMAIN entitiesAttributes :
     ToUpper(cleanId(entitiesAttributes[a].name)) = ToUpper(cleanId(selectedDimensions[d].name))}

\* dimension d has a name to look up and the catalog holds it more than once
Collides(d) ==
  ToUpper(cleanId(selectedDimensions[d].name)) # <<>> /\ Cardinality(SameNamed(d)) >= 2

FirstOf(set) == CHOOSE i \in set : \A j \in set : i <= j
LastOf(set) == CHOOSE i \in set : \A j \in set : j <= i

\* C20 as claimed: among attributes of one cleaned upper-cased name the first in
\* catalog order gives the dimension its referencedId, without any report.
C20_FirstMatchWins ==
  AfterReconcile =>
    \A d \in DOMAIN selectedDimensions :
      Collides(d) =>
        /\ selectedDimensions[d].referencedId = entitiesAttributes[FirstOf(SameNamed(d))].id
        /\ stderr = <<>>

\* C20: among attributes of one cleaned upper-cased name the last in catalog
\* order gives the dimension its referencedId when that attribute's id is not
\* empty (else the referencedId stays the dimension's name and is recorded as
\* unresolved), without any report of the collision.
C20_LastMatchWins ==
  AfterReconcile =>
    \A d \in DOMAIN selectedDimensions :
      Collides(d) =>
        LET last == entitiesAttributes[LastOf(SameNamed(d))] IN
        /\ IF last.id # <<>>
             THEN /\ selectedDimensions[d].referencedId = last.id
                  /\ \A u \in DOMAIN unresolved : unresolved[u] # selectedDimensions[d].name
             ELSE /\ selectedDimensions[d].referencedId = selectedDimensions[d].name
                  /\ \E u \in DOMAIN unresolved : unresolved[u] = selectedDimensions[d].name
        /\ stderr = <<>>

\* a finished run with a dimension whose name the catalog holds twice under
\* different ids, resolved to the second
C20_Witness ==
  /\ pc = "done"
  /\ \E d \in DOMAIN selectedDimensions :
       /\ Collides(d)
       /\ entitiesAttributes[FirstOf(SameNamed(d))].id # entitiesAttributes[LastOf(SameNamed(d))].id
       /\ selectedDimensions[d].referencedId = entitiesAttributes[LastOf(SameNamed(d))].id

(* ---------- C21: distributionItems from the header row ---------- *)

\* the header row of the sheet of a workbook of ClassifySpec
TheHeader == workbook[1].rows[1]

\* the 1-based header columns from C onward whose cleaned header is not empty,
\* in column order
NamedColumns ==
  SelectSeq([i \in 1..(Len(TheHeader) - 2) |-> i + 2],
            LAMBDA c : cleanIdCell(TheHeader[c]) # <<>>)

\* the cleaned header h after its first n characters
Rest(h, n) == SubSeq(h, n + 1, Len(h))

HasPrefix(h, prefix) ==
  Len(h) >= Len(prefix) /\ ToUpper(SubSeq(h, 1, Len(prefix))) = prefix

\* what the Builder is to make of cleaned header h; emptyRef is the referencedId
\* of a VARIANT_ header without a remainder
Classified(dist, h, emptyRef) ==
  IF HasPrefix(h, VariantPrefix)
    THEN /\ dist.type = "VARIANT"
         /\ dist.alias = Rest(h, Len(VariantPrefix))
         /\ dist.referencedId = (IF Rest(h, Len(VariantPrefix)) = <<>> THEN emptyRef
                                 ELSE Rest(h, Len(VariantPrefix)))
         /\ dist.referencedItemId = Null
  ELSE IF HasPrefix(h, AttributePrefix)
    THEN /\ dist.type = "ATTRIBUTE"
         /\ dist.alias = Rest(h, Len(AttributePrefix))
         /\ dist.referencedId = Null
         /\ dist.referencedItemId = Null
  ELSE /\ dist.type = "VARIANT"
       /\ dist.alias = h
       /\ dist.referencedId = h
       /\ dist.referencedItemId = Null

\* one distributionItem per named column, in column order, each classified
HeaderClassified(emptyRef) ==
  pc = "resolve" =>
    LET dists == selectedDimensions[1].distributionItems IN
    /\ Len(dists) = Len(NamedColumns)
    /\ \A k \in DOMAIN dists :
         Classified(dists[k], cleanIdCell(TheHeader[NamedColumns[k]]), emptyRef)

\* C21 as claimed: a VARIANT_ header has alias = referencedId = the remainder,
\* whatever the remainder.
C21_VariantAliasIsReference == HeaderClassified(<<>>)

\* C21: as claimed, except that a VARIANT_ header without a remainder gets the
\* empty alias and a null referencedId.
C21_VariantReferenceNullWhenEmpty == HeaderClassified(Null)

\* built: a lower-case variant_ header next to an ATTRIBUTE_ header
C21_Witness ==
  /\ pc = "resolve"
  /\ TheHeader[3] = S(<<"v","a","r","i","a","n","t","_"," ","p","-","k">>)
  /\ TheHeader[4] = S(<<"A","T","T","R","I","B","U","T","E","_","X">>)
  /\ selectedDimensions[1].distributionItems[1].alias = <<"p","k">>
  /\ selectedDimensions[1].distributionItems[2].type = "ATTRIBUTE"

(* ---------- C22: what each pass may change of a distributionItem ---------- *)

\* the groups of a variant catalog of the expected shape
CatalogGroups == (CHOOSE f \in VariantsFiles : variantGroups(f).isArray).groups

\* the ids of the groups whose cleaned name is that of reference r
GroupHits(r) ==
  {CatalogGroups[i].id : i \in {j \in DOMAIN CatalogGroups :
      ToUpper(cleanId(CatalogGroups[j].name)) = ToUpper(cleanId(r))}}

\* a: the item before the step, b: the item after it
ResolverStep(a, b) == a.type = "VARIANT" => b = a

VariantPassStep(a, b, mapped) ==
  /\ a.type = "ATTRIBUTE" => b = a
  /\ a.type = "VARIANT" =>
       /\ b.alias = a.alias
       /\ b.referencedItemId = a.referencedItemId
       /\ IF mapped /\ a.referencedId # Null /\ ~uuidRegex(a.referencedId)
               /\ GroupHits(a.referencedId) # {}
            THEN b.referencedId \in GroupHits(a.referencedId)
            ELSE b.referencedId = a.referencedId

\* C22: the Resolver leaves VARIANT items as they are; the variant sub-pass
\* leaves ATTRIBUTE items as they are and of a VARIANT item changes only a
\* non-null, not identifier-shaped referencedId, to the catalog id on a name
\* hit; no pass after the Builder changes the type or id of an item or the
\* number of items.
C22_ItemLifecycle ==
  [][pc # "build" =>
       /\ DOMAIN selectedDimensions' = DOMAIN selectedDimensions
       /\ \A d \in DOMAIN selectedDimensions :
            /\ DOMAIN selectedDimensions[d].distributionItems'
                 = DOMAIN selectedDimensions[d].distributionItems
            /\ \A k \in DOMAIN selectedDimensions[d].distributionItems :
                 LET a == selectedDimensions[d].distributionItems[k]
                     b == selectedDimensions'[d].distributionItems[k]
                 IN /\ b.type = a.type
                    /\ b.id = a.id
                    /\ pc = "resolve" => ResolverStep(a, b)
                    /\ pc = "variants" => VariantPassStep(a, b, variantsKind' = "ok")]_vars

\* mapped: a VARIANT item holds a catalog id next to an ATTRIBUTE item that
\* holds a dimension's id
C22_Witness ==
  /\ pc = "write"
  /\ variantsKind = "ok"
  /\ \E i \in DOMAIN AllDistributionItems(selectedDimensions) :
       LET a == AllDistributionItems(selectedDimensions)[i] IN
       a.type = "VARIANT" /\ a.referencedId \in GroupHits(a.alias)
  /\ \E i \in DOMAIN AllDistributionItems(selectedDimensions) :
       LET a == AllDistributionItems(selectedDimensions)[i] IN
       a.type = "ATTRIBUTE" /\ a.referencedId # Null

(* ---------- C23: ATTRIBUTE aliases without the WHEREIS marker ---------- *)

\* the positions of the dimensions whose cleaned name is the alias, case aside
NamedBy(alias) ==
  {e \in DOMAIN selectedDimensions :
     ToUpper(cleanId(selectedDimensions[e].name)) = ToUpper(alias)}

PlainAlias(dist) ==
  dist.type = "ATTRIBUTE" /\ IndexOf(ToUpper(dist.alias), WhereIs) < 0

\* C23: after the Resolver an ATTRIBUTE item whose alias holds no WHEREIS has a
\* null referencedItemId and as referencedId the id of a dimension whose cleaned
\* name is the whole alias, case aside, or null when there is none or the alias
\* is empty; wherever the sheet of that dimension stands in the workbook.
C23_PlainAliasResolved ==
  AfterResolve =>
    \A d \in DOMAIN selectedDimensions :
      \A k \in DOMAIN selectedDimensions[d].distributionItems :
        LET dist == selectedDimensions[d].distributionItems[k] IN
        PlainAlias(dist) =>
          /\ dist.referencedItemId = Null
          /\ IF dist.alias = <<>> \/ NamedBy(dist.alias) = {}
               THEN dist.referencedId = Null
               ELSE \E e \in NamedBy(dist.alias) :
                      dist.referencedId = selectedDimensions[e].id

\* resolved: the item of alias c_H holds the id of dimension C_h, whose sheet
\* comes later, next to an item with the empty alias
C23_Witness ==
  /\ AfterResolve
  /\ \E d \in DOMAIN selectedDimensions :
       /\ Len(selectedDimensions[d].distributionItems) = 2
       /\ selectedDimensions[d].distributionItems[1].type = "ATTRIBUTE"
       /\ selectedDimensions[d].distributionItems[1].alias = <<>>
       /\ selectedDimensions[d].distributionItems[1].referencedId = Null
       /\ selectedDimensions[d].distributionItems[2].alias = <<"c","_","H">>
       /\ \E e \in DOMAIN selectedDimensions :
            /\ e > d
            /\ selectedDimensions[e].name = <<"C","_","h">>
            /\ selectedDimensions[d].distributionItems[2].referencedId = selectedDimensions[e].id

(* ---------- C24: Metadata_ sheets that match no dimension ---------- *)

Unmatched(sheet) == IsMetadataSheet(sheet) /\ ~MatchesDimension(sheet)

\* the workbook without its unmatched Metadata_ sheets
MatchedOnly == SelectSeq(workbook, LAMBDA s : ~Unmatched(s))

\* C24: the Metadata Merger leaves the run as if the Metadata_ sheets that
\* match no dimension were not in the workbook: the same dimensions, items,
\* metadata columns and values, the same diagnostics and the same continuation;
\* with no other Metadata_ sheet nothing changes and the run goes on.
C24_UnmatchedSheetSkipped ==
  [][pc = "metadata" =>
       LET m == MergeMetadata(MatchedOnly, selectedDimensions, uuidCount) IN
       /\ selectedDimensions' = m.dims
       /\ uuidCount' = m.next
       /\ stderr' = m.errors
       /\ (pc' = "exited") = m.exit
       /\ (\A w \in DOMAIN workbook : IsMetadataSheet(workbook[w]) => Unmatched(workbook[w]))
            => /\ selectedDimensions' = selectedDimensions
               /\ stderr' = <<>>
               /\ pc' = "backup"
               /\ exitCode' = exitCode]_vars

\* passed: an unmatched Metadata_ sheet with duplicated header names stands
\* before a matched one whose columns were merged
C24_Witness ==
  /\ pc = "backup"
  /\ stderr = <<>>
  /\ \E w \in DOMAIN workbook :
       /\ Unmatched(workbook[w])
       /\ DuplicateColumns(workbook[w]) # {}
       /\ \E w2 \in DOMAIN workbook :
            w2 > w /\ IsMetadataSheet(workbook[w2]) /\ MatchesDimension(workbook[w2])
  /\ \E d \in DOMAIN selectedDimensions : selectedDimensions[d].attributeMetadataItems # <<>>

(* ---------- C25: the values of the items ---------- *)

\* C25: every item of every dimension has a non-empty value, a data row whose
\* column A cleans to the empty text having produced no item.
C25_ItemValuesNonEmpty ==
  \A d \in DOMAIN selectedDimensions :
    \A i \in DOMAIN selectedDimensions[d].items :
      selectedDimensions[d].items[i].value # <<>>

(* ---------- C26: the column a distribution is read from ---------- *)

\* C26: the distribution of the data row for the k-th distributionItem holds
\* parseNumber of the row's cell in the header column that item was made from,
\* also when a column before it has an empty cleaned header.
C26_DistributionFromOwnColumn ==
  pc # "build" =>
    LET row == workbook[1].rows[2]
        distributions == selectedDimensions[1].items[1].distributions
    IN \A k \in DOMAIN distributions :
         distributions[k].value = parseNumberOrNullCell(CellAt(row, NamedColumns[k] - 1))

(* ---------- C27: what the references of ATTRIBUTE items point at ---------- *)

\* in dims, every ATTRIBUTE item refers to nothing or to one of the dimensions,
\* and to no item or to an item of the dimension it refers to
ReferencesIntact(dims) ==
  \A d \in DOMAIN dims :
    \A k \in DOMAIN dims[d].distributionItems :
      LET dist == dims[d].distributionItems[k] IN
      dist.type = "ATTRIBUTE" =>
        /\ dist.referencedId = Null
             \/ \E e \in DOMAIN dims : dims[e].id = dist.referencedId
        /\ dist.referencedItemId = Null
             \/ /\ dist.referencedId # Null
                /\ \E e \in DOMAIN dims :
                     /\ dims[e].id = dist.referencedId
                     /\ \E i \in DOMAIN dims[e].items :
                          dims[e].items[i].id = dist.referencedItemId

\* C27: in every state after the Resolver the references of the ATTRIBUTE
\* items are intact in selectedDimensions, and so they are in the backup and in
\* the output document once written.
C27_ReferencesIntact ==
  /\ AfterResolve => ReferencesIntact(selectedDimensions)
  /\ backupFile.written => ReferencesIntact(backupFile.selectedDimensions)
  /\ outputFile.written => ReferencesIntact(outputFile.selectedDimensions)

\* written: the document holds an ATTRIBUTE item that refers to an item of
\* another dimension, after the catalogs were applied
C27_Witness ==
  /\ pc = "done"
  /\ mappedCount > 0
  /\ variantsKind = "ok"
  /\ \E d \in DOMAIN outputFile.selectedDimensions :
       \E k \in DOMAIN outputFile.selectedDimensions[d].distributionItems :
         LET dist == outputFile.selectedDimensions[d].distributionItems[k] IN
         /\ dist.type = "ATTRIBUTE"
         /\ dist.referencedItemId # Null
         /\ dist.referencedId # outputFile.selectedDimensions[d].id

(* ---------- C28: metadata column names of the written document ---------- *)

\* C28: in the document the completed run writes, the metadata column names of
\* each dimension are pairwise distinct, case aside.
C28_WrittenColumnNamesDistinct ==
  pc = "done" =>
    \A d \in DOMAIN outputFile.selectedDimensions :
      LET cols == outputFile.selectedDimensions[d].attributeMetadataItems IN
      \A a, b \in DOMAIN cols :
        a # b => ToUpper(cols[a].columnName) # ToUpper(cols[b].columnName)

(* ---------- C29: the output file of a run that exits non-zero ---------- *)

HasDigit(str) == \E i \in DOMAIN str : str[i] \in Range(Digits)

\* C30: the Builder stores a number for the cell only when the cell is a number
\* or text that holds a digit; for non-blank text without a digit it stores null.
C30_DigitlessTextIsNull ==
  (pc # "build" /\ ParsedNumber.k = "num") =>
    TheCell.k = "num" \/ (TheCell.k = "str" /\ HasDigit(TheCell.s))

==========================================================================
